---- MODULE Spec2Model ----
(***************************************************************************)
(* A model of pygh (src/pygh/__init__.py): the Version / GitVersion value  *)
(* types and the release() sequence that drives git and the GitHub API.    *)
(*                                                                         *)
(* Python values are modelled as tagged records:                           *)
(*   [t |-> "int", i |-> n]     an int                                     *)
(*   [t |-> "bool", i |-> 0|1]  a bool (a subclass of int in Python:       *)
(*                              False == 0, True == 1)                     *)
(*   [t |-> "str", s |-> <<c>>] a str, as a sequence of one-char strings   *)
(*   [t |-> "obj", o |-> r]     an instance, r the record of its attributes*)
(*   [t |-> "dict", d |-> r]    a dict with string keys                    *)
(*   [t |-> "seq", e |-> <<v>>] a tuple or list of Python values           *)
(* An operation that can raise returns [exc |-> name, ...]; exc = "none"   *)
(* means that it returned normally.                                        *)
(***************************************************************************)
EXTENDS Integers, Sequences, FiniteSets, TLC

VARIABLES
    \* ---- Version / GitVersion scenarios
    inp,        \* the arguments of the call under study
    out,        \* the result of the call: [exc, val]
    txt,        \* the result of the last rendering: [exc, s]
    back,       \* the result of constructing again from txt
    ver,        \* a version object that bump() acts on, in place
    pre,        \* ver as it was before the last bump
    cat,        \* the category of the last bump ("" before the first)
    bexc,       \* the exception the last bump raised ("none" if it returned)
    va, vb, vc, \* three version objects to compare
    cmp,        \* the six comparison results of (va, vb), once computed
    \* ---- release()
    pc,         \* the state of the release sequence
    err,        \* the exception that ended the run ("none" while running)
    steps,      \* the states passed so far, in order
    log,        \* every external operation performed so far, in order
    args,       \* the arguments of release(): category, repo, hook
    git,        \* the git tool and the working tree
    forge,      \* the forge: milestones, releases
    loc,        \* the local variables of release()
    elsewhere   \* the repository around the working directory of the
                \* process, when that is not the repository at path

vars == <<inp, out, txt, back, ver, pre, cat, bexc, va, vb, vc, cmp,
          pc, err, steps, log, args, git, forge, loc, elsewhere>>

versionVars == <<inp, out, txt, back>>
bumpVars    == <<ver, pre, cat, bexc>>
compareVars == <<va, vb, vc, cmp>>
releaseVars == <<pc, err, steps, log, args, git, forge, loc, elsewhere>>

\* ------------------------------------------------------------------ bounds
MaxNum == 10        \* version numbers range over 0..MaxNum
MaxCmp == 1         \* version numbers of the compared objects: 0..MaxCmp
MaxBump == 3        \* bump() is applied while the numbers stay <= MaxBump
MaxAhead == 1       \* commits made since the last version tag: 0..MaxAhead
MaxOpenIssues == 2  \* open issues of a milestone: 0 or MaxOpenIssues
MaxGit == 1         \* numbers given to a GitVersion: (0 - MaxBelow)..MaxGit
MaxBelow == 1
MaxExit == 2        \* exit codes of a command: 0..MaxExit
MaxPieces == 4      \* pieces of text in a changelog file: 0..MaxPieces
MaxPath == 3        \* characters of a search path given as a string
MaxWrites == 3      \* write_changelog calls on the same file: 0..MaxWrites

\* ------------------------------------------------------- Python primitives
PyInt(n)  == [t |-> "int", i |-> n]
PyStr(s)  == [t |-> "str", s |-> s]
PyObj(o)  == [t |-> "obj", o |-> o]
PyDict(d) == [t |-> "dict", d |-> d]
PySeq(e)  == [t |-> "seq", e |-> e]
PyBool(b) == [t |-> "bool", i |-> IF b THEN 1 ELSE 0]
PyNone == [t |-> "none"]

Nothing == [none |-> TRUE]
Raise(e) == [exc |-> e, val |-> Nothing]
Return(v) == [exc |-> "none", val |-> v]

Digits == <<"0", "1", "2", "3", "4", "5", "6", "7", "8", "9">>
IsDigit(c) == \E i \in 1..10 : Digits[i] = c
DigitVal(c) == (CHOOSE i \in 1..10 : Digits[i] = c) - 1
IsSpace(c) == c \in {" ", "\n", "\t"}

\* '%i' % n
RECURSIVE FormatNat(_)
FormatNat(n) ==
    IF n < 10 THEN <<Digits[n + 1]>>
    ELSE FormatNat(n \div 10) \o <<Digits[(n % 10) + 1]>>
format_i(n) == IF n < 0 THEN <<"-">> \o FormatNat(-n) ELSE FormatNat(n)

\* str.strip()
RECURSIVE strip(_)
strip(s) ==
    IF s = <<>> THEN s
    ELSE IF IsSpace(s[1]) THEN strip(Tail(s))
    ELSE IF IsSpace(s[Len(s)]) THEN strip(SubSeq(s, 1, Len(s) - 1))
    ELSE s

\* a variant of split that stops after the first separator (maxsplit = 1)
split_once(s, sep) ==
    IF \A i \in 1..Len(s) : s[i] # sep THEN <<s>>
    ELSE LET i == CHOOSE i \in 1..Len(s) :
                    s[i] = sep /\ \A j \in 1..(i - 1) : s[j] # sep
         IN  <<SubSeq(s, 1, i - 1), SubSeq(s, i + 1, Len(s))>>

\* str.split(sep) for a one-character separator
RECURSIVE split(_, _)
split(s, sep) ==
    IF \A i \in 1..Len(s) : s[i] # sep THEN <<s>>
    ELSE LET i == CHOOSE i \in 1..Len(s) :
                    s[i] = sep /\ \A j \in 1..(i - 1) : s[j] # sep
         IN  <<SubSeq(s, 1, i - 1)>> \o split(SubSeq(s, i + 1, Len(s)), sep)

\* the value of a non-empty string of decimal digits, read left to right
RECURSIVE DigitsValue(_, _)
DigitsValue(s, acc) ==
    IF s = <<>> THEN acc
    ELSE DigitsValue(Tail(s), acc * 10 + DigitVal(s[1]))

\* int(x): an int is returned as it is; a str is stripped of white space and
\* read as an optional sign followed by decimal digits (ValueError otherwise)
int_str(s) ==
    LET b == strip(s)
        signed == b # <<>> /\ b[1] \in {"-", "+"}
        d == IF signed THEN Tail(b) ELSE b
    IN  IF d = <<>> \/ \E i \in 1..Len(d) : ~IsDigit(d[i])
        THEN Raise("ValueError")
        ELSE Return(IF signed /\ b[1] = "-"
                    THEN 0 - DigitsValue(d, 0) ELSE DigitsValue(d, 0))
int(x) ==
    IF x.t \in {"int", "bool"} THEN Return(x.i)
    ELSE IF x.t = "str" THEN int_str(x.s)
    ELSE Raise("TypeError")

\* ------------------------------------------------------------ class Version
VersionAttrs == {"major", "minor", "patch"}
GitAttrs == {"commit", "dirty"}
\* the methods of the classes: getattr finds them, they are not numbers
MethodNames == {"bump", "__init__", "__repr__", "__getitem__"}

HasAttrs(x, names) == x.t = "obj" /\ names \subseteq DOMAIN x.o
HasKeys(x, names) == x.t = "dict" /\ names \subseteq DOMAIN x.d

\* Version.__init__, the choice of `version` (the nested try blocks).
\* k is the tuple of positional arguments, kw the keyword arguments.
\* k[0].major is evaluated first: with no positional argument it raises
\* IndexError, which the handler (AttributeError, TypeError) does not catch.
Version_init_version(k, kw) ==
    IF Len(k) = 0 THEN Raise("IndexError")
    ELSE IF HasAttrs(k[1], VersionAttrs)
    THEN Return(<<PyInt(k[1].o.major), PyInt(k[1].o.minor),
                  PyInt(k[1].o.patch)>>)
    ELSE IF VersionAttrs \subseteq DOMAIN kw
    THEN Return(<<kw.major, kw.minor, kw.patch>>)
    ELSE IF HasKeys(k[1], VersionAttrs)
    THEN Return(<<k[1].d.major, k[1].d.minor, k[1].d.patch>>)
    ELSE IF k[1].t = "str"
    THEN Return([i \in 1..Len(split(k[1].s, ".")) |->
                    PyStr(split(k[1].s, ".")[i])])
    ELSE IF k[1].t = "dict" THEN Raise("KeyError")
    ELSE IF k[1].t = "seq" /\ Len(k[1].e) >= 3
    THEN Return(<<k[1].e[1], k[1].e[2], k[1].e[3]>>)
    ELSE Return(k)

\* int(version[i]) of Version.__init__, i counted from 0
Version_init_field(version, i) ==
    IF Len(version) <= i THEN Raise("IndexError") ELSE int(version[i + 1])

\* Version.__init__: the new object's attributes, or the exception raised
Version_init(k, kw) ==
    LET c == Version_init_version(k, kw)
        a == Version_init_field(c.val, 0)
        b == Version_init_field(c.val, 1)
        d == Version_init_field(c.val, 2)
    IN  IF c.exc # "none" THEN c
        ELSE IF a.exc # "none" THEN a
        ELSE IF b.exc # "none" THEN b
        ELSE IF d.exc # "none" THEN d
        ELSE Return([major |-> a.val, minor |-> b.val, patch |-> d.val])

\* Version.__repr__
Version_repr(self) ==
    format_i(self.major) \o <<".">> \o format_i(self.minor) \o <<".">>
        \o format_i(self.patch)

\* the attributes that hold numbers: major, minor, patch are made by int(),
\* dirty by bool(); commit is made by str()
IsNumberAttr(name) == name \in VersionAttrs \cup {"dirty"}

\* a variant of bump whose 'minor' branch does not reset patch
bump_keeps_patch(self, category) ==
    IF category \in MethodNames THEN [exc |-> "TypeError", self |-> self]
    ELSE IF category \notin DOMAIN self
    THEN [exc |-> "AttributeError", self |-> self]
    ELSE IF ~IsNumberAttr(category) THEN [exc |-> "TypeError", self |-> self]
    ELSE LET s1 == [self EXCEPT ![category] = @ + 1]
         IN  [exc |-> "none",
              self |-> IF category = "major"
                       THEN [s1 EXCEPT !.minor = 0, !.patch = 0]
                       ELSE s1]

\* Version.bump: the object after the call, or the exception and the object
\* as the failed call left it
bump(self, category) ==
    IF category \in MethodNames THEN [exc |-> "TypeError", self |-> self]
    ELSE IF category \notin DOMAIN self
    THEN [exc |-> "AttributeError", self |-> self]
    ELSE IF ~IsNumberAttr(category) THEN [exc |-> "TypeError", self |-> self]
    ELSE LET s1 == [self EXCEPT ![category] = @ + 1]
         IN  [exc |-> "none",
              self |-> IF category = "major"
                       THEN [s1 EXCEPT !.minor = 0, !.patch = 0]
                       ELSE IF category = "minor"
                       THEN [s1 EXCEPT !.patch = 0]
                       ELSE s1]

\* a variant of __getitem__ with the indices of minor and patch exchanged
Version_getitem_swapped(self, index) ==
    IF index = 0 THEN Return(self.major)
    ELSE IF index = 1 THEN Return(self.patch)
    ELSE IF index = 2 THEN Return(self.minor)
    ELSE Raise("IndexError")

\* Version.__getitem__
Version_getitem(self, index) ==
    IF index = 0 THEN Return(self.major)
    ELSE IF index = 1 THEN Return(self.minor)
    ELSE IF index = 2 THEN Return(self.patch)
    ELSE Raise("IndexError")

\* tuple(self) of a Version: the class has no __iter__, so Python iterates by
\* calling __getitem__(0), __getitem__(1), ... until it raises IndexError
RECURSIVE iterate(_, _)
iterate(self, index) ==
    LET r == Version_getitem(self, index)
    IN  IF r.exc = "IndexError" THEN <<>>
        ELSE <<r.val>> \o iterate(self, index + 1)

\* tuple(x): of a version object, or of a tuple of ints such as (1, 0, 0)
tuple(x) ==
    IF x.t = "obj" THEN iterate(x.o, 0)
    ELSE [i \in 1..Len(x.e) |-> x.e[i].i]

\* the comparison of two tuples of ints, as Python defines it: the first
\* index where the items differ decides; without one the lengths decide
tuple_richcompare(x, y, op) ==
    LET n == IF Len(x) < Len(y) THEN Len(x) ELSE Len(y)
        differ == {i \in 1..n : x[i] # y[i]}
        i == CHOOSE j \in differ : \A l \in differ : j <= l
        a == IF differ = {} THEN Len(x) ELSE x[i]
        b == IF differ = {} THEN Len(y) ELSE y[i]
    IN  CASE op = "<"  -> a < b
          [] op = "<=" -> a <= b
          [] op = ">"  -> a > b
          [] op = ">=" -> a >= b
          [] op = "==" -> a = b
          [] op = "!=" -> a # b

\* Version.__gt__, __ge__, __lt__, __le__, __eq__, __ne__
Version_gt(self, other) == tuple_richcompare(iterate(self, 0), tuple(other), ">")
Version_ge(self, other) == tuple_richcompare(iterate(self, 0), tuple(other), ">=")
Version_lt(self, other) == tuple_richcompare(iterate(self, 0), tuple(other), "<")
Version_le(self, other) == tuple_richcompare(iterate(self, 0), tuple(other), "<=")
Version_eq(self, other) == tuple_richcompare(iterate(self, 0), tuple(other), "==")
Version_ne(self, other) == tuple_richcompare(iterate(self, 0), tuple(other), "!=")

\* --------------------------------------------------------- class GitVersion
HexLetters == {"a", "b", "c", "d", "e", "f", "A", "B", "C", "D", "E", "F"}
IsHexDigit(c) == IsDigit(c) \/ c \in HexLetters

\* digits with single underscores between them, as int() accepts them
Grouped(d) ==
    /\ d # <<>>
    /\ \A i \in 1..Len(d) : IsHexDigit(d[i]) \/ d[i] = "_"
    /\ d[1] # "_" /\ d[Len(d)] # "_"
    /\ \A i \in 1..(Len(d) - 1) : ~(d[i] = "_" /\ d[i + 1] = "_")

\* whether int(s, 16) returns (it raises ValueError otherwise): white space
\* is stripped, then an optional sign, an optional 0x prefix, hex digits
int16_accepts(s) ==
    LET b == strip(s)
        u == IF b # <<>> /\ b[1] \in {"-", "+"} THEN Tail(b) ELSE b
        prefixed == Len(u) >= 2 /\ u[1] = "0" /\ u[2] \in {"x", "X"}
        p == SubSeq(u, 3, Len(u))
    IN  IF prefixed
        THEN Grouped(IF p # <<>> /\ p[1] = "_" THEN Tail(p) ELSE p)
        ELSE Grouped(u)

\* str(x) and bool(x)
str(x) ==
    IF x.t = "str" THEN x.s
    ELSE IF x.t = "bool" THEN (IF x.i = 1 THEN <<"T", "r", "u", "e">>
                               ELSE <<"F", "a", "l", "s", "e">>)
    ELSE format_i(x.i)
bool(x) ==
    IF x.t \in {"int", "bool"} THEN (IF x.i # 0 THEN 1 ELSE 0)
    ELSE IF x.t = "str" THEN (IF x.s # <<>> THEN 1 ELSE 0)
    ELSE IF x.t = "seq" THEN (IF x.e # <<>> THEN 1 ELSE 0)
    ELSE 1

\* x[i] of a str or a tuple, i counted from 0
getitem(x, i) ==
    IF x.t = "str"
    THEN (IF i < Len(x.s) THEN Return(PyStr(<<x.s[i + 1]>>))
          ELSE Raise("IndexError"))
    ELSE (IF i < Len(x.e) THEN Return(x.e[i + 1]) ELSE Raise("IndexError"))

\* GitVersion.__init__, the choice of `version` (the nested try blocks).
\* When k[0] has the attributes commit and dirty the first try succeeds and
\* its handler, which holds every assignment to self, is skipped (set FALSE).
GitVersion_init_version(k, kw) ==
    IF HasAttrs(k[1], GitAttrs)
    THEN [exc |-> "none", set |-> FALSE, val |-> Nothing]
    ELSE IF GitAttrs \subseteq DOMAIN kw
    THEN [exc |-> "none", set |-> TRUE, val |-> PySeq(<<kw.commit, kw.dirty>>)]
    ELSE IF HasKeys(k[1], GitAttrs)
    THEN [exc |-> "none", set |-> TRUE,
          val |-> PySeq(<<k[1].d.commit, k[1].d.dirty>>)]
    ELSE IF k[1].t = "obj"
    THEN [exc |-> "IndexError", set |-> FALSE, val |-> Nothing]
    ELSE IF k[1].t = "str"
    THEN (IF Len(split(k[1].s, ".")) < 4
          THEN [exc |-> "IndexError", set |-> FALSE, val |-> Nothing]
          ELSE [exc |-> "none", set |-> TRUE,
                val |-> PyStr(split(k[1].s, ".")[4])])
    ELSE IF k[1].t = "dict"
    THEN [exc |-> "KeyError", set |-> FALSE, val |-> Nothing]
    ELSE IF k[1].t = "seq" /\ Len(k[1].e) >= 5
    THEN [exc |-> "none", set |-> TRUE,
          val |-> PySeq(<<k[1].e[4], k[1].e[5]>>)]
    ELSE [exc |-> "none", set |-> TRUE, val |-> PySeq(SubSeq(k, 4, Len(k)))]

\* GitVersion.__init__, the assignments of commit and dirty from `version`
GitVersion_init_fields(version) ==
    LET first == getitem(version, 0)
        second == getitem(version, 1)
        commit == str(first.val)
        parts == split(commit, "-")
    IN  IF first.exc # "none" THEN first
        ELSE IF second.exc = "none"
        THEN Return([commit |-> commit, dirty |-> bool(second.val)])
        ELSE IF Len(parts) >= 2
        THEN Return([commit |-> parts[1],
                     dirty |-> IF parts[2] = <<"d", "i", "r", "t", "y">>
                               THEN 1 ELSE 0])
        ELSE Return([commit |-> commit, dirty |-> 0])

\* GitVersion.__init__: the new object's attributes, or the exception raised
GitVersion_init(k, kw) ==
    LET base == Version_init(k, kw)
        c == GitVersion_init_version(k, kw)
        f == GitVersion_init_fields(c.val)
    IN  IF base.exc # "none" THEN base
        ELSE IF c.exc # "none" THEN Raise(c.exc)
        ELSE IF ~c.set THEN base
        ELSE IF f.exc # "none" THEN f
        ELSE IF ~int16_accepts(f.val.commit) THEN Raise("ValueError")
        ELSE Return([major |-> base.val.major, minor |-> base.val.minor,
                     patch |-> base.val.patch, commit |-> f.val.commit,
                     dirty |-> f.val.dirty])

\* GitVersion.__repr__
GitVersion_repr(self) ==
    IF ~(GitAttrs \subseteq DOMAIN self) THEN Raise("AttributeError")
    ELSE Return(Version_repr(self) \o <<".">>
                \o SubSeq(self.commit, 1,
                          IF Len(self.commit) < 8 THEN Len(self.commit) ELSE 8)
                \o (IF self.dirty # 0 THEN <<"-", "d", "i", "r", "t", "y">>
                    ELSE <<>>))

\* ================================================== scenarios on versions
Idle == [idle |-> TRUE]
Pending == [exc |-> "pending", val |-> Nothing]
NoKw == <<>>

VersionIdle == inp = Idle /\ out = Idle /\ txt = Idle /\ back = Idle
BumpIdle    == ver = Idle /\ pre = Idle /\ cat = "" /\ bexc = "none"
CompareIdle == va = Idle /\ vb = Idle /\ vc = Idle /\ cmp = Idle
ReleaseIdle ==
    /\ pc = "Idle" /\ err = "none" /\ steps = <<>> /\ log = <<>>
    /\ args = Idle /\ git = Idle /\ forge = Idle /\ loc = Idle
    /\ elsewhere = Idle

\* ---- construction and rendering of a Version
\* the construction forms of the class documentation, and a list
Forms == {"positional", "string", "version", "mapping", "keywords", "list"}

Dotted(major, minor, patch) ==
    format_i(major) \o <<".">> \o format_i(minor) \o <<".">> \o format_i(patch)

Numbers(i) == <<PyInt(i.major), PyInt(i.minor), PyInt(i.patch)>>
Mapping(i) ==
    [major |-> PyInt(i.major), minor |-> PyInt(i.minor), patch |-> PyInt(i.patch)]

\* the positional and the keyword arguments of the call that inp describes
Positional(i) ==
    CASE i.form = "positional" -> Numbers(i)
      [] i.form = "string" -> <<PyStr(Dotted(i.major, i.minor, i.patch))>>
      [] i.form = "version" -> <<PyObj(Version_init(Numbers(i), NoKw).val)>>
      [] i.form = "mapping" -> <<PyDict(Mapping(i))>>
      [] i.form = "keywords" -> <<>>
      [] i.form = "list" -> <<PySeq(Numbers(i))>>
Keywords(i) == IF i.form = "keywords" THEN Mapping(i) ELSE NoKw

InitVersion ==
    /\ inp \in [form : Forms, major : 0..MaxNum, minor : 0..MaxNum,
                patch : 0..MaxNum]
    /\ out = Pending /\ txt = Pending /\ back = Pending
    /\ BumpIdle /\ CompareIdle /\ ReleaseIdle

\* Version(...)
Construct ==
    /\ out = Pending
    /\ out' = Version_init(Positional(inp), Keywords(inp))
    /\ UNCHANGED <<inp, txt, back, bumpVars, compareVars, releaseVars>>

\* repr(version)
Render ==
    /\ out.exc = "none" /\ txt = Pending
    /\ txt' = Return(Version_repr(out.val))
    /\ UNCHANGED <<inp, out, back, bumpVars, compareVars, releaseVars>>

\* Version(repr(version))
Reparse ==
    /\ txt.exc = "none" /\ back = Pending
    /\ back' = Version_init(<<PyStr(txt.val)>>, NoKw)
    /\ UNCHANGED <<inp, out, txt, bumpVars, compareVars, releaseVars>>

NextVersion == Construct \/ Render \/ Reparse

SpecVersion == InitVersion /\ [][NextVersion]_vars

\* ---- bump
Categories == {"major", "minor", "patch", "dirty", "commit", "foo", "bump"}
Commits == {<<"a", "b", "c">>, <<"4", "e", "d", "3", "9", "a", "8", "7", "0">>}

InitBump ==
    /\ \E M \in 0..1, m \in 0..1, p \in 0..1 :
         \/ ver = Version_init(<<PyInt(M), PyInt(m), PyInt(p)>>, NoKw).val
         \/ \E c \in Commits, d \in BOOLEAN :
              ver = GitVersion_init(<<PyInt(M), PyInt(m), PyInt(p), PyStr(c),
                                      PyBool(d)>>, NoKw).val
    /\ pre = ver /\ cat = "" /\ bexc = "none"
    /\ VersionIdle /\ CompareIdle /\ ReleaseIdle

\* version.bump(category), in place
Bump(category) ==
    /\ \A a \in DOMAIN ver : IsNumberAttr(a) => ver[a] < MaxBump
    /\ pre' = ver
    /\ cat' = category
    /\ ver' = bump(ver, category).self
    /\ bexc' = bump(ver, category).exc
    /\ UNCHANGED <<versionVars, compareVars, releaseVars>>

NextBump == \E category \in Categories : Bump(category)

SpecBump == InitBump /\ [][NextBump]_vars

\* ---- comparisons
Six(a, b) ==
    [lt |-> Version_lt(a, PyObj(b)), le |-> Version_le(a, PyObj(b)),
     gt |-> Version_gt(a, PyObj(b)), ge |-> Version_ge(a, PyObj(b)),
     eq |-> Version_eq(a, PyObj(b)), ne |-> Version_ne(a, PyObj(b))]

InitCompare ==
    /\ \E M \in 0..MaxCmp, m \in 0..MaxCmp, p \in 0..MaxCmp, d \in BOOLEAN :
         va = GitVersion_init(<<PyInt(M), PyInt(m), PyInt(p),
                 PyStr(IF d THEN <<"a", "b">> ELSE <<"c", "d">>), PyBool(d)>>,
                 NoKw).val
    /\ \E M \in 0..MaxCmp, m \in 0..MaxCmp, p \in 0..MaxCmp, d \in BOOLEAN :
         vb = GitVersion_init(<<PyInt(M), PyInt(m), PyInt(p),
                 PyStr(IF d THEN <<"a", "b">> ELSE <<"c", "d">>), PyBool(d)>>,
                 NoKw).val
    /\ \E M \in 0..MaxCmp, m \in 0..MaxCmp, p \in 0..MaxCmp :
         vc = Version_init(<<PyInt(M), PyInt(m), PyInt(p)>>, NoKw).val
    /\ cmp = Idle
    /\ VersionIdle /\ BumpIdle /\ ReleaseIdle

\* va < vb, va <= vb, ... and the same for (vb, vc) and (va, vc)
Compare ==
    /\ cmp = Idle
    /\ cmp' = [ab |-> Six(va, vb), bc |-> Six(vb, vc), ac |-> Six(va, vc),
               ba |-> Six(vb, va)]
    /\ UNCHANGED <<va, vb, vc, versionVars, bumpVars, releaseVars>>

\* the operands are exchanged
Swap ==
    /\ cmp # Idle
    /\ va' = vb /\ vb' = va /\ cmp' = Idle
    /\ UNCHANGED <<vc, versionVars, bumpVars, releaseVars>>

NextCompare == Compare \/ Swap

SpecCompare == InitCompare /\ [][NextCompare]_vars

\* ---- construction of a GitVersion (and of a Version, from numbers alone)
\* the commit texts handed to the constructor
CommitTexts ==
    {<<"a", "b", "c", "d", "e", "f", "0", "1">>, <<"9">>, <<"f", "f">>,
     <<"x", "y", "z">>, <<"0", "x", "1", "f">>, <<"-", "f", "f">>,
     <<"a", "b", "c", "-", "f", "o", "o">>}
DirtyMarker == <<"-", "d", "i", "r", "t", "y">>
\* the forms that carry a commit text with an optional '-dirty' marker, the
\* forms that carry a commit text and a dirty flag, the forms without either
MarkerForms == {"arguments", "string"}
FlagForms == {"arguments_flag", "mapping", "keywords", "list", "version"}
BareForms == {"bare_arguments", "bare_string"}

\* the commit text as written in the call
Written(i) == i.commit \o (IF i.marker THEN DirtyMarker ELSE <<>>)
GitMapping(i) ==
    [major |-> PyInt(i.major), minor |-> PyInt(i.minor),
     patch |-> PyInt(i.patch), commit |-> PyStr(i.commit),
     dirty |-> PyBool(i.flag)]
GitNumbers(i) == Numbers(i) \o <<PyStr(i.commit), PyBool(i.flag)>>

GitPositional(i) ==
    CASE i.form = "arguments" -> Numbers(i) \o <<PyStr(Written(i))>>
      [] i.form = "arguments_flag" -> GitNumbers(i)
      [] i.form = "string" ->
            <<PyStr(Dotted(i.major, i.minor, i.patch) \o <<".">> \o Written(i))>>
      [] i.form = "mapping" -> <<PyDict(GitMapping(i))>>
      [] i.form = "keywords" -> <<>>
      [] i.form = "list" -> <<PySeq(GitNumbers(i))>>
      [] i.form = "version" ->
            <<PyObj(GitVersion_init(GitNumbers(i), NoKw).val)>>
      [] i.form = "bare_arguments" -> Numbers(i)
      [] i.form = "bare_string" ->
            <<PyStr(Dotted(i.major, i.minor, i.patch))>>
GitKeywords(i) == IF i.form = "keywords" THEN GitMapping(i) ELSE NoKw

GitInputs ==
    {i \in [cls : {"Version", "GitVersion"},
            form : MarkerForms \cup FlagForms \cup BareForms,
            major : (0 - MaxBelow)..MaxGit, minor : (0 - MaxBelow)..MaxGit,
            patch : (0 - MaxBelow)..MaxGit,
            commit : CommitTexts \cup {<<>>},
            marker : BOOLEAN, flag : BOOLEAN] :
        /\ i.cls = "Version" => i.form \in BareForms
        /\ i.form \in BareForms <=> i.commit = <<>>
        /\ i.form \notin MarkerForms => ~i.marker
        /\ i.form \notin FlagForms => ~i.flag
        /\ i.form = "version" =>
               GitVersion_init(GitNumbers(i), NoKw).exc = "none"}

InitGit ==
    /\ inp \in GitInputs
    /\ out = Pending /\ txt = Pending /\ back = Pending
    /\ BumpIdle /\ CompareIdle /\ ReleaseIdle

\* Version(...) or GitVersion(...)
ConstructGit ==
    /\ out = Pending
    /\ out' = IF inp.cls = "Version"
              THEN Version_init(GitPositional(inp), GitKeywords(inp))
              ELSE GitVersion_init(GitPositional(inp), GitKeywords(inp))
    /\ UNCHANGED <<inp, txt, back, bumpVars, compareVars, releaseVars>>

\* version.bump(category) on the constructed object
BumpConstructed(category) ==
    /\ out.exc = "none" /\ back = Pending
    /\ back' = bump(out.val, category)
    /\ UNCHANGED <<inp, out, txt, bumpVars, compareVars, releaseVars>>

NextGit ==
    \/ ConstructGit
    \/ \E category \in {"major", "minor", "patch"} : BumpConstructed(category)

SpecGit == InitGit /\ [][NextGit]_vars

\* --------------------------------------------------------- execute_command
\* a variant that tests `if expected and ...`: an expected code of 0 counts
\* as no expectation
execute_command_truthy(cmd, error_message, expected, p) ==
    IF expected # PyNone /\ expected.i # 0 /\ p.returncode # expected.i
    THEN [exc |-> "ExecuteCommandError",
          val |-> [message |-> error_message, cmd |-> cmd,
                   code |-> p.returncode, out |-> p.out, err |-> p.err]]
    ELSE Return(<<p.returncode, p.out, p.err>>)

\* execute_command, p being the process after communicate():
\* [returncode, out, err]. The exception carries message, cmd, code, out, err.
execute_command(cmd, error_message, expected, p) ==
    IF expected # PyNone /\ p.returncode # expected.i
    THEN [exc |-> "ExecuteCommandError",
          val |-> [message |-> error_message, cmd |-> cmd,
                   code |-> p.returncode, out |-> p.out, err |-> p.err]]
    ELSE Return(<<p.returncode, p.out, p.err>>)

\* ---- calls of execute_command
Outputs == {<<>>, <<"t", "e", "x", "t", "\n">>}
InitCommand ==
    /\ inp \in [cmd : {<<"ls">>, <<"false">>, <<"git", "push">>}, message : {"Failed to run external program"},
                expected : {PyNone} \cup {PyInt(n) : n \in 0..MaxExit},
                returncode : 0..MaxExit, out : Outputs, err : Outputs]
    /\ out = Pending /\ txt = Idle /\ back = Idle
    /\ BumpIdle /\ CompareIdle /\ ReleaseIdle

\* execute_command(cmd, error_message, expected)
Execute ==
    /\ out = Pending
    /\ out' = execute_command(inp.cmd, inp.message, inp.expected,
                   [returncode |-> inp.returncode, out |-> inp.out,
                    err |-> inp.err])
    /\ UNCHANGED <<inp, txt, back, bumpVars, compareVars, releaseVars>>

NextCommand == Execute

SpecCommand == InitCommand /\ [][NextCommand]_vars

\* -------------------------------------------------------- find_exe_in_path
\* os.pathsep and os.sep of the platform
pathsep(system) == IF system = "Windows" THEN ";" ELSE ":"
sep(system) == IF system = "Windows" THEN "\\" ELSE "/"

\* os.path.join(dir, filename) for a relative filename
join(system, dir, filename) ==
    IF dir = <<>> THEN filename
    ELSE IF dir[Len(dir)] = sep(system) THEN dir \o filename
    ELSE dir \o <<sep(system)>> \o filename

\* filter(f, list)
RECURSIVE filter(_, _)
filter(kept, list) ==
    IF list = <<>> THEN <<>>
    ELSE (IF list[1] \in kept THEN <<list[1]>> ELSE <<>>)
         \o filter(kept, Tail(list))

\* find_exe_in_path(filename, path): environ is the value of PATH or PyNone,
\* files the paths for which os.path.exists is true. pathlist is bound only
\* when path is a str.
find_exe_in_path(system, filename, path, environ, files) ==
    LET name == IF system = "Windows"
                THEN filename \o <<".", "e", "x", "e">> ELSE filename
        given == IF path = PyNone
                 THEN (IF environ = PyNone THEN PyStr(<<>>) ELSE environ)
                 ELSE path
    IN  IF given.t # "str" THEN Raise("UnboundLocalError")
        ELSE LET pathlist == split(given.s, pathsep(system))
             IN  Return(filter(files,
                     [i \in 1..Len(pathlist) |->
                         join(system, pathlist[i], name)]))

\* ---- calls of find_exe_in_path
\* the files that may exist
Candidates(system) ==
    {join(system, dir, name) :
        dir \in {<<>>, <<"a">>, <<"b">>},
        name \in {<<"e">>, <<"e", ".", "e", "x", "e">>}}
InitFind ==
    /\ \E system \in {"Linux", "Windows"} :
         \E files \in SUBSET Candidates(system) :
          inp \in [system : {system}, filename : {<<"e">>},
                   path : {PyNone}
                          \cup {PyStr(t) :
                                  t \in UNION {[1..n -> {"a", "b", ":", ";"}] :
                                                  n \in 0..MaxPath}}
                          \cup {PySeq(l) :
                                  l \in {<<>>, <<<<"a">>>>,
                                         <<<<"b">>, <<"a">>>>}},
                   environ : {PyNone, PyStr(<<>>), PyStr(<<"a">>),
                              PyStr(<<"b", ":", "a">>),
                              PyStr(<<"b", ";", "a">>)},
                   files : {files}]
    /\ out = Pending /\ txt = Idle /\ back = Idle
    /\ BumpIdle /\ CompareIdle /\ ReleaseIdle

\* find_exe_in_path(filename, path)
Find ==
    /\ out = Pending
    /\ out' = find_exe_in_path(inp.system, inp.filename, inp.path,
                               inp.environ, inp.files)
    /\ UNCHANGED <<inp, txt, back, bumpVars, compareVars, releaseVars>>

NextFind == Find

SpecFind == InitFind /\ [][NextFind]_vars

\* ------------------------------------------------------ the forge requests
\* r is the response of the forge, [status_code, json]; json is the payload,
\* given by the set of its keys. Each function returns r.json() or raises.
HttpApiError(message, url, code, error) ==
    [exc |-> "HttpApiError",
     val |-> [message |-> message, url |-> url, code |-> code,
              error |-> error]]

ApiRepos == <<"https://api.github.com/repos/", "vcatechnology/pygh">>

\* get_milestones: GET .../milestones
get_milestones_response(r) ==
    LET url == ApiRepos \o <<"/milestones">>
    IN  IF r.status_code # 200
        THEN HttpApiError("Failed to retrieve github milestones", url,
                          r.status_code, r.json)
        ELSE Return(r.json)

\* close_milestone: PATCH .../milestones/{number}
close_milestone_response(number, r) ==
    LET url == ApiRepos \o <<"/milestones/", number>>
    IN  IF r.status_code # 200
        THEN HttpApiError("Failed to close github milestone", url,
                          r.status_code, r.json)
        ELSE Return(r.json)

\* get_issues: GET .../issues; the message of the ReleaseError is built
\* from r.json()['message']
get_issues_response(r) ==
    IF r.status_code # 200
    THEN (IF "message" \in r.json THEN Raise("ReleaseError")
          ELSE Raise("KeyError"))
    ELSE Return(r.json)

\* create_release: POST .../releases; returns None
create_release_response(r) ==
    LET url == ApiRepos \o <<"/releases">>
    IN  IF r.status_code # 201
        THEN HttpApiError("Failed to create github release", url,
                          r.status_code, r.json)
        ELSE Return(PyNone)

\* ---- calls of the four functions
InitRequest ==
    /\ inp \in [request : {"get_milestones", "close_milestone", "get_issues",
                           "create_release"},
                number : {4, 7},
                status_code : {200, 201, 204, 301, 401, 404, 422, 500},
                json : {{}, {"message"}, {"message", "documentation_url"},
                        {"id", "number"}}]
    /\ out = Pending /\ txt = Idle /\ back = Idle
    /\ BumpIdle /\ CompareIdle /\ ReleaseIdle

\* the function named by inp.request receives the response
Respond ==
    /\ out = Pending
    /\ LET r == [status_code |-> inp.status_code, json |-> inp.json]
       IN  out' = CASE inp.request = "get_milestones" ->
                          get_milestones_response(r)
                    [] inp.request = "close_milestone" ->
                          close_milestone_response(inp.number, r)
                    [] inp.request = "get_issues" ->
                          get_issues_response(r)
                    [] inp.request = "create_release" ->
                          create_release_response(r)
    /\ UNCHANGED <<inp, txt, back, bumpVars, compareVars, releaseVars>>

NextRequest == Respond

SpecRequest == InitRequest /\ [][NextRequest]_vars

\* =============================================================== release()
\* The working tree and the forge are the environment of release(). git is
\*   [tool      the version `git --version` reports, as (major, minor, patch)
\*    head      the commit HEAD names, a string of hex digits; Unborn in a
\*              repository without any commit
\*    tags      the names of the version tags reachable from HEAD, oldest
\*              first
\*    ahead     the number of commits made since the last of them
\*    tracked   the tracked files with changes, untracked the untracked ones
\*    origin    what the fetch URL of the remote `origin` names
\*    changelog the lines of the changelog file (Absent when there is none)
\*    version   the content of the version file (Absent when there is none)
\*    staged    the files staged for the next commit
\*    commits   the messages of the commits made, oldest first
\*    annotated the annotated tags created: [name, message]
\*    pushed    the number of those commits the remote branch has
\*    remotetags  the annotated tags the remote has]
\* forge is [milestones, releases, token]; a milestone is
\* [title, state, open_issues, number].
Absent == [absent |-> TRUE]
File(content) == [content |-> content]
Zeros40 == [i \in 1..40 |-> "0"]
HeadCommit == <<"4", "e", "d", "3", "9", "a", "8", "7", "0", "1">>

Unborn == <<>>

\* a line of the text as one string
Line(chars) == chars \o <<"\n">>

\* a finished process: p.returncode and the (out, err) of p.communicate()
Process(returncode, stdout, stderr) ==
    [returncode |-> returncode, out |-> stdout, err |-> stderr]
Fatal == Line(<<"f", "a", "t", "a", "l">>)

\* the output of `git rev-parse HEAD`: without a commit git prints the name
\* it could not resolve, and exits with 128
rev_parse_out(g) ==
    IF g.head = Unborn THEN Line(<<"H", "E", "A", "D">>) ELSE Line(g.head)
\* the output of `git diff-index --name-only HEAD`: the changed tracked files
diff_index_out(g) == IF g.head = Unborn THEN <<>> ELSE g.tracked
\* the output of `git status --porcelain`: one line per changed or untracked
\* file, its two-letter state first
status_out(g) ==
    [i \in 1..Len(g.tracked) |-> [xy |-> " M", file |-> g.tracked[i]]]
        \o [i \in 1..Len(g.untracked) |-> [xy |-> "??", file |-> g.untracked[i]]]
\* `git describe --match=v[0-9]* HEAD`: the last tag, followed by -N-gHASH
\* when N commits were made since; exit code 128 without a tag
describe(g) ==
    IF g.tags = <<>> THEN Process(128, <<>>, Fatal)
    ELSE Process(0,
                 Line(g.tags[Len(g.tags)]
                      \o (IF g.ahead = 0 THEN <<>>
                          ELSE <<"-">> \o format_i(g.ahead) \o <<"-", "g">>
                                   \o SubSeq(g.head, 1, 7))),
                 <<>>)
\* the four processes get_latest_git_tag_version starts. rev-parse HEAD and
\* diff-index HEAD exit with 128 when HEAD names no commit; `failed` is the
\* number of a command that fails for a reason outside the working tree
\* (0: none does).
inspect(g, failed) ==
    <<IF failed = 1 \/ g.head = Unborn
      THEN Process(128, rev_parse_out(g), Fatal)
      ELSE Process(0, rev_parse_out(g), <<>>),
      IF failed = 2 \/ g.head = Unborn
      THEN Process(128, <<>>, Fatal)
      ELSE Process(0, diff_index_out(g), <<>>),
      IF failed = 3 THEN Process(128, <<>>, Fatal)
      ELSE Process(0, status_out(g), <<>>),
      describe(g)>>

\* the longest prefix of s made of decimal digits
RECURSIVE LeadingDigits(_)
LeadingDigits(s) ==
    IF s = <<>> \/ ~IsDigit(s[1]) THEN <<>>
    ELSE <<s[1]>> \o LeadingDigits(Tail(s))

\* a variant of the pattern that ends with $: the whole line has to match
re_tag_match_whole(s) ==
    LET a == LeadingDigits(Tail(s))
        r1 == SubSeq(s, Len(a) + 2, Len(s))
        b == LeadingDigits(Tail(r1))
        r2 == SubSeq(r1, Len(b) + 2, Len(r1))
        c == LeadingDigits(Tail(r2))
    IN  IF /\ s # <<>> /\ s[1] = "v" /\ a # <<>>
           /\ r1 # <<>> /\ r1[1] = "." /\ b # <<>>
           /\ r2 # <<>> /\ r2[1] = "." /\ c # <<>>
           /\ SubSeq(r2, Len(c) + 2, Len(r2)) \in {<<>>, <<"\n">>}
        THEN [matched |-> TRUE, groups |-> <<a, b, c>>]
        ELSE [matched |-> FALSE, groups |-> <<>>]

\* re_tag.match(out): '^v([0-9]+)\.([0-9]+)\.([0-9]+)(-[0-9]+-g[a-f0-9]+)?'
\* the three groups, or no match. The optional last group never makes the
\* match fail.
re_tag_match(s) ==
    LET a == LeadingDigits(Tail(s))
        r1 == SubSeq(s, Len(a) + 2, Len(s))
        b == LeadingDigits(Tail(r1))
        r2 == SubSeq(r1, Len(b) + 2, Len(r1))
        c == LeadingDigits(Tail(r2))
    IN  IF /\ s # <<>> /\ s[1] = "v" /\ a # <<>>
           /\ r1 # <<>> /\ r1[1] = "." /\ b # <<>>
           /\ r2 # <<>> /\ r2[1] = "." /\ c # <<>>
        THEN [matched |-> TRUE, groups |-> <<a, b, c>>]
        ELSE [matched |-> FALSE, groups |-> <<>>]

\* a variant of the dirty flag that looks at the tracked files only
latest_dirty_tracked_only(diff, status) == diff # <<>>

\* get_latest_git_tag_version: the commit from the output of rev-parse, the
\* dirty flag from the outputs of diff-index and status
latest_commit(stdout) ==
    LET commit == strip(split(stdout, "\n")[1])
    IN  IF commit = <<"H", "E", "A", "D">> \/ commit = <<>> THEN Zeros40
        ELSE commit
latest_dirty(diff, status) ==
    \/ diff # <<>>
    \/ \E i \in 1..Len(status) : status[i].xy = "??"
\* get_latest_git_tag_version: the first three commands run with expected =
\* 0, describe with expected = None; the GitVersion returned, or the
\* exception raised
get_latest_git_tag_version(g, failed) ==
    LET p == inspect(g, failed)
        head == execute_command(<<"git", "rev-parse", "HEAD">>,
                    "Failed to get HEAD revision of repository", PyInt(0), p[1])
        diff == execute_command(<<"git", "diff-index", "--name-only", "HEAD">>,
                    "Failed to check if the project had local modifications",
                    PyInt(0), p[2])
        status == execute_command(<<"git", "status", "--porcelain">>,
                    "Failed to check if the project had local modifications",
                    PyInt(0), p[3])
        described == execute_command(
                    <<"git", "describe", "--match=v[0-9]*", "HEAD">>,
                    "Failed to run external program", PyNone, p[4])
        commit == latest_commit(head.val[2])
        dirty == latest_dirty(diff.val[2], status.val[2])
        m == re_tag_match(described.val[2])
    IN  IF head.exc # "none" THEN head
        ELSE IF diff.exc # "none" THEN diff
        ELSE IF status.exc # "none" THEN status
        ELSE IF described.val[1] # 0
        THEN GitVersion_init(<<PyInt(0), PyInt(0), PyInt(0),
                               PyStr(commit), PyBool(dirty)>>, NoKw)
        ELSE IF ~m.matched THEN Raise("AttributeError")
        ELSE GitVersion_init(<<PyInt(int_str(m.groups[1]).val),
                               PyInt(int_str(m.groups[2]).val),
                               PyInt(int_str(m.groups[3]).val),
                               PyStr(commit), PyBool(dirty)>>, NoKw)
\* the number of the command that raised (0: none did)
inspect_raised(g, failed) ==
    IF \A i \in 1..3 : inspect(g, failed)[i].returncode = 0 THEN 0
    ELSE CHOOSE i \in 1..3 :
            /\ inspect(g, failed)[i].returncode # 0
            /\ \A j \in 1..(i - 1) : inspect(g, failed)[j].returncode = 0

\* get_git_version, once `git --version` has run: Version(out.replace(...))
get_git_version(g) ==
    Version_init(<<PyStr(Line(Version_repr(g.tool)))>>, NoKw)

\* 'v%s' % version
vname(version) == <<"v">> \o Version_repr(version)

\* get_milestones: the forge lists the open milestones
get_milestones(f) ==
    SelectSeq(f.milestones, LAMBDA m : m.state = "open")

\* a variant of get_version_milestone that compares the title with
\* '%s' % version, without the leading v
get_version_milestone_no_prefix(version, f) ==
    LET found == SelectSeq(get_milestones(f),
                     LAMBDA m : m.title = Version_repr(version)
                                /\ m.state = "open")
    IN  IF found = <<>> THEN PyNone ELSE found[1]

\* get_version_milestone, once the request has succeeded: the first
\* milestone with the title 'v%s' % version that is open, or None
get_version_milestone(version, f) ==
    LET found == SelectSeq(get_milestones(f),
                     LAMBDA m : m.title = vname(version) /\ m.state = "open")
    IN  IF found = <<>> THEN PyNone ELSE found[1]

\* get_tag_date(tag): `git log -1 --format=%ai <tag>` finds the tag or fails
tag_exists(g, name) == \E i \in 1..Len(g.tags) : g.tags[i] = name

\* create_changelog, the data handed to the template and its rendering:
\* the header names version.to, the compare link is rendered when
\* version.from is not None, the milestone link when a milestone was found
changelog_from(previous_version) ==
    IF Version_gt(previous_version, PySeq(<<PyInt(0), PyInt(0), PyInt(0)>>))
    THEN PyStr(Version_repr(previous_version))
    ELSE PyNone
create_changelog(current_version, previous_version, repo, description, milestone, issues) ==
    LET from == changelog_from(previous_version)
        to == Version_repr(current_version)
    IN  [header |-> <<"v">> \o to,
         compare |-> IF from = PyNone THEN PyNone
                     ELSE PyStr(<<"v">> \o from.s \o <<".", ".", ".", "v">> \o to),
         milestone |-> IF milestone = PyNone THEN PyNone
                       ELSE PyStr(<<"m", "i", "l", "e", "s", "t", "o", "n", "e",
                                    "%", "3", "A", "v">> \o to),
         repo |-> repo,
         description |-> description,
         issues |-> SelectSeq(issues, LAMBDA i : ~i.pull_request),
         pullrequests |-> SelectSeq(issues, LAMBDA i : i.pull_request)]

\* a variant that calls the hook and keeps the text it was given
apply_hook_discarded(hook, changelog_data) == changelog_data

\* hooks.get('changelog', lambda d: d)(changelog_data)
apply_hook(hook, changelog_data) ==
    IF hook THEN [hooked |-> changelog_data] ELSE changelog_data

\* a text (the changelog file, an entry) as a sequence of pieces: the text
\* '# Changelog', a newline character, lines as rendered from the template
\* (none starts with '# Changelog', the last one ends with a newline), or
\* other text without a newline
HeadingLine == [kind |-> "heading"]
Newline == [kind |-> "newline"]
EntryLines(changelog) == [kind |-> "entry", text |-> changelog]
OtherText == [kind |-> "text"]

\* the length of the first line fileinput reads from the text: up to and
\* including the first newline, or all of it
line_end(content) ==
    IF \A i \in 1..Len(content) : content[i].kind \notin {"newline", "entry"}
    THEN Len(content)
    ELSE CHOOSE i \in 1..Len(content) :
            /\ content[i].kind \in {"newline", "entry"}
            /\ \A j \in 1..(i - 1) : content[j].kind \notin {"newline", "entry"}

\* write_changelog: the file afterwards. An existing file is copied line by
\* line; after each line that starts with '# Changelog', print() writes a
\* newline and the entry is written. A missing file is created with
\* '# Changelog\n\n' and the entry. changelog is the text of the entry.
RECURSIVE insert_entry(_, _)
insert_entry(content, changelog) ==
    IF content = <<>> THEN <<>>
    ELSE LET line == SubSeq(content, 1, line_end(content))
         IN  line
             \o (IF line[1] = HeadingLine
                 THEN <<Newline>> \o changelog ELSE <<>>)
             \o insert_entry(SubSeq(content, line_end(content) + 1,
                                    Len(content)), changelog)
write_changelog(file, changelog) ==
    IF file = Absent
    THEN File(<<HeadingLine, Newline, Newline>> \o changelog)
    ELSE File(insert_entry(file.content, changelog))

\* the working tree after a file of it was written: a file that was there
\* is a tracked file with changes, a new one is untracked
written(g, file, existed) ==
    IF existed THEN [g EXCEPT !.tracked = Append(@, file)]
    ELSE [g EXCEPT !.untracked = Append(@, file)]

\* write_version: the file holds '%s' % Version(version)
write_version(version) ==
    File(Version_repr(Version_init(<<PyObj(version)>>, NoKw).val))

\* the effects of the git commands that change the repository
next_commit(head) == Tail(head) \o <<head[1]>>
git_add(g, file) == [g EXCEPT !.staged = @ \cup {file}]
\* the commit holds the staged files, which are no longer changed files of
\* the working tree
git_commit(g, message) ==
    [g EXCEPT !.commits = Append(@, [message |-> message, files |-> g.staged]),
              !.tracked = SelectSeq(@, LAMBDA f : f \notin g.staged),
              !.untracked = SelectSeq(@, LAMBDA f : f \notin g.staged),
              !.staged = {},
              !.ahead = @ + 1,
              !.head = next_commit(@)]
git_tag(g, name, message) ==
    [g EXCEPT !.annotated = Append(@, [name |-> name, message |-> message]),
              !.tags = Append(@, name),
              !.ahead = 0]
git_push(g) == [g EXCEPT !.pushed = Len(g.commits)]
git_push_tags(g) == [g EXCEPT !.remotetags = g.annotated]

\* get_git_root(path) as commit_file calls it, path being the bare file name
\* release() passes: os.path.abspath resolves it against the working
\* directory of the process. cwd tells where that is: "path" (the directory
\* release() works on, where the file was just written), "other repository"
\* (a directory of another repository that holds a file of this name), or
\* "outside" (a directory without such a file: abspath is then no directory
\* and Popen raises OSError). The value is the repository rev-parse names.
get_git_root(cwd, file) ==
    IF cwd = "outside" THEN Raise("OSError") ELSE Return(cwd)

\* commit_file: get_git_root, `git add <path>`, `git commit -m <message>`;
\* the repository when operation number `failed` of the three fails (0: none)
CommitOps == <<"git rev-parse --show-toplevel", "git add", "git commit">>
commit_file(g, file, message, failed) ==
    IF failed \in {1, 2} THEN g
    ELSE IF failed = 3 THEN git_add(g, file)
    ELSE git_commit(git_add(g, file), message)

\* create_release: POST /repos/{repo}/releases
create_release(f, version, description) ==
    [f EXCEPT !.releases = Append(@, [tag_name |-> vname(version),
                                      name |-> Version_repr(version),
                                      body |-> description])]
\* a variant of close_milestone that closes the first milestone of the list
close_milestone_first(f, number) ==
    [f EXCEPT !.milestones =
        [i \in 1..Len(@) |-> IF i = 1
                              THEN [@[i] EXCEPT !.state = "closed"]
                              ELSE @[i]]]

\* close_milestone: PATCH /repos/{repo}/milestones/{number}, state closed
close_milestone(f, number) ==
    [f EXCEPT !.milestones =
        [i \in 1..Len(@) |-> IF @[i].number = number
                              THEN [@[i] EXCEPT !.state = "closed"]
                              ELSE @[i]]]

\* ---- the run
\* the states of the release sequence, in order
Order == <<"Start", "ToolVersionCheck", "PreviousVersionResolved",
           "DirtyCheck", "VersionBumped", "RepositoryIdentified",
           "MilestonePrecheck", "ChangelogBuilt", "ChangelogWritten",
           "ChangelogCommitted", "VersionFileWritten", "VersionFileCommitted",
           "Tagged", "PushedBranch", "PushedTags", "RemoteReleaseCreated",
           "MilestoneClosed", "Done">>

\* execute_command and the requests: the log entries of running the
\* operations ops of a step, of which number `failed` fails (0: none does)
\* and raises; the operations after the failing one do not run
Entries(step, ops, failed) ==
    [i \in 1..(IF failed = 0 THEN Len(ops) ELSE failed) |->
        [step |-> step, op |-> ops[i],
         result |-> IF i # failed THEN "ok" ELSE "raised"]]
\* the same for operations inside `try: ... except ExecuteCommandError:`
Caught(entries) ==
    [i \in 1..Len(entries) |->
        [entries[i] EXCEPT !.result = IF @ = "raised" THEN "caught" ELSE @]]

\* a variant with a compensating action: the commits and the tag of the run
\* are taken back when an operation raises
on_failure_rollback(g) ==
    [g EXCEPT !.commits = <<>>, !.annotated = <<>>, !.pushed = 0]

\* release() has no handler and no compensating action: when an operation
\* raises, the repository stays as the operations before it left it
on_failure(g) == g

\* the step succeeded and left the repository as g: the sequence enters the
\* next state
Enter(state, g) ==
    pc' = state /\ steps' = Append(steps, state) /\ err' = "none" /\ git' = g
\* a variant of the exception path that swallows the exception: the run goes
\* on with the step after the failing one
Abort_swallowed(e, g) ==
    /\ pc' = Order[Len(steps) + 2]
    /\ err' = "none" /\ UNCHANGED steps /\ git' = on_failure(g)

\* an exception leaves release(), the repository being g
Abort(e, g) ==
    pc' = "Failed" /\ err' = e /\ UNCHANGED steps /\ git' = on_failure(g)

RepoName == "vcatechnology/pygh"
MinimumGit == PySeq(<<PyInt(1), PyInt(0), PyInt(0)>>)
releaseRest == <<versionVars, bumpVars, compareVars, args, elsewhere>>
commitRest == <<versionVars, bumpVars, compareVars, args>>

\* git_version = get_git_version(); if git_version < (1, 0, 0): raise
CheckToolVersion ==
    /\ pc = "Start"
    /\ \E failed \in 0..1 :
         /\ log' = log \o Entries("ToolVersionCheck", <<"git --version">>, failed)
         /\ IF failed # 0
            THEN Abort("ExecuteCommandError", git) /\ UNCHANGED loc
            ELSE IF get_git_version(git).exc # "none"
            THEN Abort(get_git_version(git).exc, git) /\ UNCHANGED loc
            ELSE /\ loc' = [loc EXCEPT !.git_version = get_git_version(git).val]
                 /\ IF Version_lt(get_git_version(git).val, MinimumGit)
                    THEN Abort("ReleaseError", git)
                    ELSE Enter("ToolVersionCheck", git)
    /\ UNCHANGED <<forge, releaseRest>>

\* previous_version = get_latest_git_tag_version(path)
InspectOps == <<"git rev-parse HEAD", "git diff-index", "git status",
                "git describe">>
ResolvePreviousVersion ==
    /\ pc = "ToolVersionCheck"
    /\ \E failed \in 0..3 :
         LET version == get_latest_git_tag_version(git, failed)
         IN  /\ log' = log \o Entries("PreviousVersionResolved", InspectOps,
                                      inspect_raised(git, failed))
             /\ IF version.exc # "none"
                THEN Abort(version.exc, git) /\ UNCHANGED loc
                ELSE /\ loc' = [loc EXCEPT !.previous_version = version.val]
                     /\ Enter("PreviousVersionResolved", git)
    /\ UNCHANGED <<forge, releaseRest>>

\* a variant of the dirty check that lets a dirty repository pass
CheckDirty_warns ==
    /\ pc = "PreviousVersionResolved"
    /\ Enter("DirtyCheck", git)
    /\ UNCHANGED <<log, loc, forge, releaseRest>>

\* if previous_version.dirty: raise ReleaseError
CheckDirty ==
    /\ pc = "PreviousVersionResolved"
    /\ IF loc.previous_version.dirty # 0
       THEN Abort("ReleaseError", git)
       ELSE Enter("DirtyCheck", git)
    /\ UNCHANGED <<log, loc, forge, releaseRest>>

\* a variant in which previous_version is the object that is bumped
release_versions_aliased(previous_version, category) ==
    LET current == Version_init(<<PyObj(previous_version)>>, NoKw).val
        bumped == bump(current, category)
    IN  [exc |-> bumped.exc, current_version |-> bumped.self,
         previous_version |-> bumped.self]

\* current_version = Version(previous_version)
\* previous_version = Version(current_version)
\* current_version.bump(category)
\* the two versions of a run, and the exception bump raised
release_versions(previous_version, category) ==
    LET current == Version_init(<<PyObj(previous_version)>>, NoKw).val
        previous == Version_init(<<PyObj(current)>>, NoKw).val
        bumped == bump(current, category)
    IN  [exc |-> bumped.exc, current_version |-> bumped.self,
         previous_version |-> previous]

BumpVersion ==
    /\ pc = "DirtyCheck"
    /\ LET bumped == release_versions(loc.previous_version, args.category)
       IN  /\ loc' = [loc EXCEPT !.current_version = bumped.current_version,
                                 !.previous_version = bumped.previous_version]
           /\ IF bumped.exc # "none" THEN Abort(bumped.exc, git)
              ELSE Enter("VersionBumped", git)
    /\ UNCHANGED <<log, forge, releaseRest>>

\* repo = repo or get_github_repo(path); description = description or ...
IdentifyRepository ==
    /\ pc = "VersionBumped"
    /\ IF args.repo # PyNone
       THEN /\ log' = log
            /\ loc' = [loc EXCEPT !.repo = args.repo.s,
                          !.description = [release |-> vname(loc.current_version),
                                           of |-> args.repo.s]]
            /\ Enter("RepositoryIdentified", git)
       ELSE \E failed \in 0..1 :
            /\ log' = log \o Entries("RepositoryIdentified",
                                     <<"git remote show">>, failed)
            /\ IF failed # 0 \/ git.origin # "github"
               THEN Abort("ExecuteCommandError", git) /\ UNCHANGED loc
               ELSE /\ loc' = [loc EXCEPT !.repo = RepoName,
                          !.description = [release |-> vname(loc.current_version),
                                           of |-> RepoName]]
                    /\ Enter("RepositoryIdentified", git)
    /\ UNCHANGED <<forge, releaseRest>>

\* milestone = get_version_milestone(current_version); if it has open
\* issues: raise ReleaseError. get_api_token raises ValueError before any
\* request when the token is not valid.
PrecheckMilestone ==
    /\ pc = "RepositoryIdentified"
    /\ IF ~forge.token
       THEN log' = log /\ Abort("ValueError", git) /\ UNCHANGED loc
       ELSE \E failed \in 0..1 :
            /\ log' = log \o Entries("MilestonePrecheck",
                                     <<"GET milestones">>, failed)
            /\ IF failed # 0
               THEN Abort("HttpApiError", git) /\ UNCHANGED loc
               ELSE LET milestone ==
                            get_version_milestone(loc.current_version, forge)
                    IN  /\ loc' = [loc EXCEPT !.milestone = milestone]
                        /\ IF milestone # PyNone /\ milestone.open_issues # 0
                           THEN Abort("ReleaseError", git)
                           ELSE Enter("MilestonePrecheck", git)
    /\ UNCHANGED <<forge, releaseRest>>

\* changelog_data = create_changelog(...), then the 'changelog' hook.
\* get_tag_date runs inside try/except ExecuteCommandError (since = None when
\* it fails); get_issues raises ReleaseError, get_version_milestone
\* HttpApiError.
TagDateOps == <<"git rev-parse --show-toplevel", "git log">>
issues_since(f, since) ==
    SelectSeq(f.issues, LAMBDA i : since = PyNone \/ i.recent)
BuildChangelog ==
    /\ pc = "MilestonePrecheck"
    /\ \E nodate \in 0..2, failed \in 0..2 :
         /\ nodate = 0 => tag_exists(git, vname(loc.previous_version))
         /\ log' = log \o Caught(Entries("ChangelogBuilt", TagDateOps, nodate))
                       \o Entries("ChangelogBuilt",
                                  <<"GET issues", "GET milestones">>, failed)
         /\ IF failed = 1 THEN Abort("ReleaseError", git) /\ UNCHANGED loc
            ELSE IF failed = 2 THEN Abort("HttpApiError", git) /\ UNCHANGED loc
            ELSE /\ loc' = [loc EXCEPT
                     !.since = IF nodate = 0 THEN PyStr(<<"d", "a", "t", "e">>)
                               ELSE PyNone,
                     !.changelog_data = apply_hook(args.hook,
                         create_changelog(loc.current_version,
                             loc.previous_version, loc.repo, loc.description,
                             get_version_milestone(loc.current_version, forge),
                             issues_since(forge,
                                 IF nodate = 0 THEN PyStr(<<"d", "a", "t", "e">>)
                                 ELSE PyNone)))]
                 /\ Enter("ChangelogBuilt", git)
    /\ UNCHANGED <<forge, releaseRest>>

\* write_changelog(os.path.join(path, changelog), changelog_data)
WriteChangelog ==
    /\ pc = "ChangelogBuilt"
    /\ \E failed \in 0..1 :
         /\ log' = log \o Entries("ChangelogWritten", <<"write changelog">>,
                                  failed)
         /\ IF failed # 0
            THEN Abort("EnvironmentError", git)
            ELSE Enter("ChangelogWritten",
                       written([git EXCEPT !.changelog =
                                   write_changelog(@,
                                       <<EntryLines(loc.changelog_data)>>)],
                               "changelog", git.changelog # Absent))
    /\ UNCHANGED <<loc, forge, releaseRest>>

\* commit_file(changelog, 'Updated changelog for v%s' % current_version)
CommitChangelog ==
    /\ pc = "ChangelogWritten"
    /\ LET root == get_git_root(args.cwd, "changelog")
           message == [updated |-> "changelog", v |-> vname(loc.current_version)]
       IN  IF root.exc # "none"
           THEN /\ log' = log \o <<[step |-> "ChangelogCommitted", op |-> "Popen",
                                    result |-> "raised"]>>
                /\ Abort(root.exc, git)
                /\ elsewhere' = elsewhere
           ELSE \E failed \in 0..3 :
                  /\ log' = log \o Entries("ChangelogCommitted", CommitOps, failed)
                  /\ IF root.val = "path"
                     THEN /\ elsewhere' = elsewhere
                          /\ IF failed # 0
                             THEN Abort("ExecuteCommandError",
                                      commit_file(git, "changelog", message, failed))
                             ELSE Enter("ChangelogCommitted",
                                      commit_file(git, "changelog", message, failed))
                     ELSE /\ elsewhere' = commit_file(elsewhere, "changelog",
                                                      message, failed)
                          /\ IF failed # 0
                             THEN Abort("ExecuteCommandError", git)
                             ELSE Enter("ChangelogCommitted", git)
    /\ UNCHANGED <<loc, forge, commitRest>>

\* write_version(os.path.join(path, version), current_version)
WriteVersion ==
    /\ pc = "ChangelogCommitted"
    /\ \E failed \in 0..1 :
         /\ log' = log \o Entries("VersionFileWritten", <<"write version">>,
                                  failed)
         /\ IF failed # 0
            THEN Abort("EnvironmentError", git)
            ELSE Enter("VersionFileWritten",
                       written([git EXCEPT !.version =
                                   write_version(loc.current_version)],
                               "version", git.version # Absent))
    /\ UNCHANGED <<loc, forge, releaseRest>>

\* commit_file(version, 'Updated version to v%s' % current_version)
CommitVersion ==
    /\ pc = "VersionFileWritten"
    /\ LET root == get_git_root(args.cwd, "version")
           message == [updated |-> "version", v |-> vname(loc.current_version)]
       IN  IF root.exc # "none"
           THEN /\ log' = log \o <<[step |-> "VersionFileCommitted", op |-> "Popen",
                                    result |-> "raised"]>>
                /\ Abort(root.exc, git)
                /\ elsewhere' = elsewhere
           ELSE \E failed \in 0..3 :
                  /\ log' = log \o Entries("VersionFileCommitted", CommitOps, failed)
                  /\ IF root.val = "path"
                     THEN /\ elsewhere' = elsewhere
                          /\ IF failed # 0
                             THEN Abort("ExecuteCommandError",
                                      commit_file(git, "version", message, failed))
                             ELSE Enter("VersionFileCommitted",
                                      commit_file(git, "version", message, failed))
                     ELSE /\ elsewhere' = commit_file(elsewhere, "version",
                                                      message, failed)
                          /\ IF failed # 0
                             THEN Abort("ExecuteCommandError", git)
                             ELSE Enter("VersionFileCommitted", git)
    /\ UNCHANGED <<loc, forge, commitRest>>
\* create_git_version_tag(current_version, message=description)
TagVersion ==
    /\ pc = "VersionFileCommitted"
    /\ \E failed \in 0..2 :
         /\ log' = log \o Entries("Tagged",
                <<"git rev-parse --show-toplevel", "git tag">>, failed)
         /\ IF failed # 0
            THEN Abort("ExecuteCommandError", git)
            ELSE Enter("Tagged",
                       git_tag(git,
                           vname(Version_init(<<PyObj(loc.current_version)>>,
                                              NoKw).val),
                           loc.description))
    /\ UNCHANGED <<loc, forge, releaseRest>>

\* get_git_root(path); execute_command([git, 'push'])
PushBranch ==
    /\ pc = "Tagged"
    /\ \E failed \in 0..2 :
         /\ log' = log \o Entries("PushedBranch",
                <<"git rev-parse --show-toplevel", "git push">>, failed)
         /\ IF failed # 0
            THEN Abort("ExecuteCommandError", git)
            ELSE Enter("PushedBranch", git_push(git))
    /\ UNCHANGED <<loc, forge, releaseRest>>

\* get_git_root(path); execute_command([git, 'push', '--tags'])
PushTags ==
    /\ pc = "PushedBranch"
    /\ \E failed \in 0..2 :
         /\ log' = log \o Entries("PushedTags",
                <<"git rev-parse --show-toplevel", "git push --tags">>, failed)
         /\ IF failed # 0
            THEN Abort("ExecuteCommandError", git)
            ELSE Enter("PushedTags", git_push_tags(git))
    /\ UNCHANGED <<loc, forge, releaseRest>>

\* create_release(version=current_version, description=changelog_data)
CreateRelease ==
    /\ pc = "PushedTags"
    /\ \E failed \in 0..1 :
         /\ log' = log \o Entries("RemoteReleaseCreated", <<"POST releases">>,
                                  failed)
         /\ IF failed # 0
            THEN Abort("HttpApiError", git) /\ UNCHANGED forge
            ELSE /\ forge' = create_release(forge, loc.current_version,
                                            loc.changelog_data)
                 /\ Enter("RemoteReleaseCreated", git)
    /\ UNCHANGED <<loc, releaseRest>>

\* if milestone: close_milestone(number=milestone['number'])
CloseMilestone ==
    /\ pc = "RemoteReleaseCreated"
    /\ IF loc.milestone = PyNone
       THEN log' = log /\ Enter("MilestoneClosed", git) /\ UNCHANGED forge
       ELSE \E failed \in 0..1 :
            /\ log' = log \o Entries("MilestoneClosed", <<"PATCH milestone">>,
                                     failed)
            /\ IF failed # 0
               THEN Abort("HttpApiError", git) /\ UNCHANGED forge
               ELSE /\ forge' = close_milestone(forge, loc.milestone.number)
                    /\ Enter("MilestoneClosed", git)
    /\ UNCHANGED <<loc, releaseRest>>

\* logger.info('Released %s' % current_version); release() returns
Finish ==
    /\ pc = "MilestoneClosed"
    /\ Enter("Done", git)
    /\ UNCHANGED <<log, loc, forge, releaseRest>>

\* ---- the repositories, forges and calls a run starts from
Tools == {[major |-> 0, minor |-> 9, patch |-> 5],
          [major |-> 1, minor |-> 0, patch |-> 0]}
PreviousTags == {<<>>,
                 <<<<"v", "0", ".", "0", ".", "0">>>>,
                 <<<<"v", "0", ".", "1", "0", ".", "2">>>>,
                 <<<<"v", "0", ".", "9", ".", "0">>,
                   <<"v", "1", ".", "2", ".", "3">>>>}

\* the version a run on repository g with this category releases
Target(g, category) ==
    bump(Version_init(<<PyObj(get_latest_git_tag_version(g, 0).val)>>,
                      NoKw).val,
         category).self

OtherMilestone ==
    [title |-> <<"v", "9", ".", "9", ".", "9">>, state |-> "open",
     open_issues |-> 1, number |-> 7]
\* the milestone lists: titles are unique on the forge
MilestoneLists(target) ==
    {<<>>, <<OtherMilestone>>}
    \cup UNION {{<<m>>, <<OtherMilestone, m>>} :
            m \in [title : {vname(target)}, state : {"open", "closed"},
                   open_issues : {0, MaxOpenIssues}, number : {4}]}

Issues == <<[number |-> 11, pull_request |-> FALSE, recent |-> TRUE],
            [number |-> 12, pull_request |-> TRUE, recent |-> TRUE],
            [number |-> 3, pull_request |-> FALSE, recent |-> FALSE]>>

\* a changelog file with the entry of an earlier release
OldChangelog ==
    File(<<HeadingLine, Newline, Newline, EntryLines(<<"o", "l", "d">>)>>)

\* the repositories: without a commit there is no tag and no tracked file
Repositories ==
    {g \in [tool : Tools, head : {HeadCommit, Unborn}, tags : PreviousTags,
            ahead : 0..MaxAhead, tracked : {<<>>, <<"setup.py">>},
            untracked : {<<>>, <<"notes.txt">>},
            origin : {"github", "other"},
            changelog : {Absent, OldChangelog}, version : {Absent},
            staged : {{}}, commits : {<<>>}, annotated : {<<>>},
            pushed : {0}, remotetags : {<<>>}] :
        /\ g.tags = <<>> => g.ahead = 0
        /\ g.changelog = Absent <=> g.tags = <<>>
        /\ g.head = Unborn => g.tags = <<>> /\ g.tracked = <<>>}

NoLocals ==
    [git_version |-> PyNone, previous_version |-> PyNone,
     current_version |-> PyNone, repo |-> "", description |-> PyNone,
     milestone |-> PyNone, since |-> PyNone, changelog_data |-> PyNone]

InitRelease ==
    /\ pc = "Start" /\ err = "none" /\ steps = <<>> /\ log = <<>>
    /\ loc = NoLocals
    /\ args \in [category : {"major", "minor", "patch", "dirty"},
                 repo : {PyNone, PyStr(RepoName)},
                 hook : BOOLEAN,
                 cwd : {"path", "other repository", "outside"}]
    /\ git \in Repositories
    /\ elsewhere = [staged |-> {}, commits |-> <<>>, ahead |-> 0,
                    head |-> HeadCommit, tracked |-> <<>>,
                    untracked |-> <<>>]
    /\ args.repo # PyNone => git.origin = "github"
    /\ \E token \in BOOLEAN :
         \E milestones \in IF git.head = Unborn THEN {<<>>}
                           ELSE MilestoneLists(Target(git, args.category)) :
           forge = [milestones |-> milestones, releases |-> <<>>,
                    issues |-> Issues, token |-> token]
    /\ VersionIdle /\ BumpIdle /\ CompareIdle

NextRelease ==
    \/ CheckToolVersion \/ ResolvePreviousVersion \/ CheckDirty
    \/ BumpVersion \/ IdentifyRepository \/ PrecheckMilestone
    \/ BuildChangelog \/ WriteChangelog \/ CommitChangelog
    \/ WriteVersion \/ CommitVersion \/ TagVersion
    \/ PushBranch \/ PushTags \/ CreateRelease \/ CloseMilestone \/ Finish

Spec == InitRelease /\ [][NextRelease]_vars

\* ---- calls of write_changelog: on every file of up to MaxPieces pieces,
\* with rendered text none of whose lines starts with '# Changelog' and with
\* a text that has such a line
ChangelogFiles ==
    {Absent}
    \cup {File(c) : c \in UNION {[1..n -> {HeadingLine, Newline, OtherText,
                                            EntryLines(<<"o", "l", "d">>)}] :
                                    n \in 0..MaxPieces}}
InitChangelog ==
    /\ inp \in [file : ChangelogFiles,
                changelog :
                    {<<EntryLines(<<"n", "e", "w">>)>>,
                     <<EntryLines(<<"o", "l", "d">>)>>,
                     <<EntryLines(<<"n", "e", "w">>), HeadingLine,
                       EntryLines(<<"m", "o", "r", "e">>)>>}]
    /\ out = Pending /\ txt = Idle /\ back = Idle
    /\ BumpIdle /\ CompareIdle /\ ReleaseIdle

\* write_changelog(path, changelog); out is the file afterwards
WriteEntry ==
    /\ out = Pending
    /\ out' = Return(write_changelog(inp.file, inp.changelog))
    /\ UNCHANGED <<inp, txt, back, bumpVars, compareVars, releaseVars>>

NextChangelog == WriteEntry

SpecChangelog == InitChangelog /\ [][NextChangelog]_vars

\* ---- successive calls of write_changelog on one path
\* the entries of the releases: rendered lines, and entries whose
\* description line starts with '# Changelog'
SuccessiveEntries ==
    {<<EntryLines(<<n>>)>> : n \in {"1", "2", "3", "4"}}
    \cup {<<EntryLines(<<n>>), HeadingLine, EntryLines(<<n, "d">>)>> :
              n \in {"5", "6"}}
\* no call yet: inp holds the entries written so far, out the file
InitSuccessive ==
    /\ inp = <<>> /\ out = Return(Absent)
    /\ txt = Idle /\ back = Idle
    /\ BumpIdle /\ CompareIdle /\ ReleaseIdle

\* write_changelog(path, e) for an entry not written before
WriteNext ==
    /\ Len(inp) < MaxWrites
    /\ \E e \in SuccessiveEntries :
          /\ \A i \in 1..Len(inp) : inp[i] # e
          /\ inp' = Append(inp, e)
          /\ out' = Return(write_changelog(out.val, e))
    /\ UNCHANGED <<txt, back, bumpVars, compareVars, releaseVars>>

NextSuccessive == WriteNext

SpecSuccessive == InitSuccessive /\ [][NextSuccessive]_vars

\* ---- calls of get_latest_git_tag_version
InitInspect ==
    /\ git \in Repositories
    /\ inp \in [failed : 0..3]
    /\ out = Pending /\ txt = Idle /\ back = Idle
    /\ pc = "Idle" /\ err = "none" /\ steps = <<>> /\ log = <<>>
    /\ args = Idle /\ forge = Idle /\ loc = Idle /\ elsewhere = Idle
    /\ BumpIdle /\ CompareIdle

\* get_latest_git_tag_version(path)
Inspect ==
    /\ out = Pending
    /\ out' = get_latest_git_tag_version(git, inp.failed)
    /\ UNCHANGED <<inp, txt, back, bumpVars, compareVars, releaseVars>>

NextInspect == Inspect

SpecInspect == InitInspect /\ [][NextInspect]_vars

\* ============================================ claims on the release sequence
NumericCategories == {"major", "minor", "patch"}
LoggedOps == {log[i].op : i \in 1..Len(log)}
WriteOps == {"write changelog", "write version", "git add", "git commit",
             "git tag", "git push", "git push --tags"}
ForgeOps == {"GET milestones", "GET issues", "POST releases",
             "PATCH milestone"}
\* the repository and the forge hold nothing the run could have produced
NothingWritten ==
    /\ git.changelog \in {Absent, OldChangelog}
    /\ git.version = Absent /\ git.staged = {} /\ git.commits = <<>>
    /\ git.annotated = <<>> /\ git.pushed = 0 /\ git.remotetags = <<>>
    /\ forge.releases = <<>>
IsPrefix(a, b) == Len(a) <= Len(b) /\ SubSeq(b, 1, Len(a)) = a
StepIndex(state) == CHOOSE i \in 1..Len(Order) : Order[i] = state

\* the version derived from the working tree has dirty = true
DerivedDirty ==
    /\ loc.previous_version # PyNone
    /\ "dirty" \in DOMAIN loc.previous_version
    /\ loc.previous_version.dirty # 0

\* C1: when the version derived from the working tree is dirty, the run does
\* not get past the dirty check, it ends with ReleaseError, and no file
\* write, stage, commit, tag, push or forge request was performed.
C1_DirtyStopsBeforeAnyEffect ==
    DerivedDirty =>
        /\ pc \in {"PreviousVersionResolved", "Failed"}
        /\ steps = <<"ToolVersionCheck", "PreviousVersionResolved">>
        /\ pc = "Failed" => err = "ReleaseError"
        /\ LoggedOps \cap (WriteOps \cup ForgeOps) = {}
        /\ NothingWritten

\* a run on a tree whose only change is an untracked file has ended
C1_Witness ==
    /\ DerivedDirty /\ pc = "Failed" /\ err = "ReleaseError"
    /\ git.tracked = <<>> /\ git.untracked # <<>>
    /\ forge.token /\ git.tags # <<>>

\* the forge has an open milestone titled v{current} with open issues,
\* current being the bumped version
Blocked ==
    /\ Len(steps) >= 4
    /\ \E i \in 1..Len(forge.milestones) :
         /\ forge.milestones[i].title = vname(loc.current_version)
         /\ forge.milestones[i].state = "open"
         /\ forge.milestones[i].open_issues # 0

\* C2: with an open milestone v{current} that has open issues, the run does
\* not get past the milestone precheck: once the milestones were retrieved
\* it has ended with ReleaseError, and there was no issue query, no
\* changelog, no file write, commit, tag, push, release creation or
\* milestone closure.
C2_OpenMilestoneBlocks ==
    Blocked =>
        /\ Len(steps) <= 5
        /\ pc \in {"VersionBumped", "RepositoryIdentified", "Failed"}
        /\ (\E i \in 1..Len(log) : log[i].op = "GET milestones") =>
               /\ pc = "Failed"
               /\ log[Len(log)].result = "ok" => err = "ReleaseError"
        /\ LoggedOps \cap ({"GET issues", "git log", "POST releases",
                            "PATCH milestone"} \cup WriteOps) = {}
        /\ loc.changelog_data = PyNone
        /\ NothingWritten

\* the precheck found the blocking milestone behind another open milestone
C2_Witness ==
    /\ Blocked /\ pc = "Failed" /\ err = "ReleaseError"
    /\ Len(steps) = 5 /\ Len(forge.milestones) = 2
    /\ loc.milestone # PyNone /\ loc.milestone.open_issues = MaxOpenIssues

\* the steps and the operations so far follow the fixed order
InOrder ==
    /\ IsPrefix(steps, Tail(Order))
    /\ IF err = "none" THEN pc = Order[Len(steps) + 1] ELSE pc = "Failed"
    /\ \A i \in 1..Len(log) :
         /\ StepIndex(log[i].step) <=
                Len(steps) + (IF pc = "Failed" THEN 2 ELSE 1)
         /\ log[i].result = "raised" =>
                /\ i = Len(log) /\ pc = "Failed"
                /\ StepIndex(log[i].step) = Len(steps) + 2
         /\ i < Len(log) =>
                StepIndex(log[i].step) <= StepIndex(log[i + 1].step)
         /\ \A j \in 1..Len(log) :
                j # i => <<log[j].step, log[j].op>> # <<log[i].step, log[i].op>>

\* C3: the steps executed are a prefix of the fixed linear order, every
\* operation belongs to a completed step or to the one step that failed, no
\* operation runs twice, a raised operation is the last one, and a step is
\* only ever taken from the state its predecessor entered: never after a
\* failure and never after Done.
C3_LinearOrder ==
    /\ []InOrder
    /\ [][/\ pc \notin {"Failed", "Done"}
          /\ steps' \in {steps, Append(steps, Order[Len(steps) + 2])}
          /\ pc' \in {"Failed", Order[Len(steps) + 2]}
          /\ IsPrefix(log, log')]_vars

\* the run failed at `git push`, after the twelve steps before it
C3_Witness ==
    /\ pc = "Failed" /\ Len(steps) = 12 /\ steps[12] = "Tagged"
    /\ log[Len(log)].op = "git push" /\ log[Len(log)].result = "raised"

\* `push` succeeded and `push --tags` failed
PushTagsFailed ==
    /\ pc = "Failed" /\ Len(steps) = 13
    /\ log[Len(log)].op = "git push --tags"

\* the commits of the run, in the repository commit_file made them in
Committed == IF args.cwd = "path" THEN git.commits ELSE elsewhere.commits

\* C4: a failing step takes nothing back: the forge and the repositories stay
\* as the completed steps left them (a failing commit_file keeps what its
\* `git add` staged); when `push --tags` fails after `push`, the branch is
\* pushed, both commits of the run are in place, the annotated tag is in
\* place locally and not on the remote, and no release creation or milestone
\* closure was attempted.
C4_NoRollback ==
    /\ [][pc' = "Failed" =>
            /\ forge' = forge
            /\ [git' EXCEPT !.staged = git.staged] = git
            /\ git.staged \subseteq git'.staged
            /\ [elsewhere' EXCEPT !.staged = elsewhere.staged] = elsewhere
            /\ elsewhere.staged \subseteq elsewhere'.staged]_vars
    /\ [](PushTagsFailed =>
            /\ Len(Committed) = 2 /\ git.pushed = Len(git.commits)
            /\ Committed[1].files = {"changelog"}
            /\ Committed[2].files = {"version"}
            /\ Len(git.annotated) = 1
            /\ git.annotated[1].name = vname(loc.current_version)
            /\ git.tags[Len(git.tags)] = vname(loc.current_version)
            /\ git.remotetags = <<>>
            /\ git.version = File(Version_repr(loc.current_version))
            /\ git.changelog \notin {Absent, OldChangelog}
            /\ LoggedOps \cap {"POST releases", "PATCH milestone"} = {}
            /\ forge.releases = <<>>
            /\ \A i \in 1..Len(forge.milestones) :
                 forge.milestones[i].title = vname(loc.current_version) =>
                     forge.milestones[i].state = "open"
                     \/ loc.milestone = PyNone)

\* `push --tags` itself failed, with an open milestone waiting to be closed
C4_Witness ==
    /\ PushTagsFailed /\ log[Len(log)].result = "raised"
    /\ loc.milestone # PyNone /\ git.pushed = 2

Triple(M, m, p) == [major |-> M, minor |-> m, patch |-> p]
TripleOf(v) == Triple(v.major, v.minor, v.patch)
\* the versions the tags of the repositories name
TagTriple(name) ==
    CASE name = <<"v", "0", ".", "0", ".", "0">> -> Triple(0, 0, 0)
      [] name = <<"v", "0", ".", "1", "0", ".", "2">> -> Triple(0, 10, 2)
      [] name = <<"v", "0", ".", "9", ".", "0">> -> Triple(0, 9, 0)
      [] name = <<"v", "1", ".", "2", ".", "3">> -> Triple(1, 2, 3)
\* the version named by the tag the repository had before the run
RepositoryTriple ==
    LET old == IF git.annotated = <<>> THEN git.tags
               ELSE SubSeq(git.tags, 1, Len(git.tags) - 1)
    IN  IF old = <<>> THEN Triple(0, 0, 0) ELSE TagTriple(old[Len(old)])
Bumped(p, c) ==
    CASE c = "major" -> Triple(p.major + 1, 0, 0)
      [] c = "minor" -> Triple(p.major, p.minor + 1, 0)
      [] c = "patch" -> Triple(p.major, p.minor, p.patch + 1)
\* the changelog data, whether or not the hook wrapped it
ChangelogData ==
    IF args.hook THEN loc.changelog_data.hooked ELSE loc.changelog_data
CompareLink ==
    PyStr(vname(loc.previous_version) \o <<".", ".", ".">>
          \o vname(loc.current_version))
\* current is bump(p, c), previous keeps the triple of p, and the changelog
\* header, the version file, the tag and the release name current
NamesCurrent ==
    /\ args.category \in NumericCategories
    /\ TripleOf(loc.current_version) = Bumped(RepositoryTriple, args.category)
    /\ TripleOf(loc.previous_version) = RepositoryTriple
    /\ Len(steps) >= 7 => ChangelogData.header = vname(loc.current_version)
    /\ Len(steps) >= 10 => git.version = File(Version_repr(loc.current_version))
    /\ Len(steps) >= 12 =>
           git.annotated = <<[name |-> vname(loc.current_version),
                              message |-> loc.description]>>
    /\ Len(steps) >= 15 =>
           /\ Len(forge.releases) = 1
           /\ forge.releases[1].tag_name = vname(loc.current_version)
           /\ forge.releases[1].name = Version_repr(loc.current_version)

\* C5 as stated: after the bump current = bump(p, c) and previous = p, the
\* changelog has to = current and the compare link from v{previous} to
\* v{current}, and tag, version file and release name current.
C5_FromIsPrevious ==
    Len(steps) >= 4 =>
        /\ NamesCurrent
        /\ Len(steps) >= 7 => ChangelogData.compare = CompareLink

\* C5 with the first release set apart: the compare link from v{previous} to
\* v{current} is there when previous is above 0.0.0; when previous is 0.0.0
\* (no tag, or the tag v0.0.0) `from` is None and there is no compare link.
C5_FromIsPreviousAboveZero ==
    Len(steps) >= 4 =>
        /\ NamesCurrent
        /\ Len(steps) >= 7 =>
               ChangelogData.compare =
                   IF RepositoryTriple = Triple(0, 0, 0) THEN PyNone
                   ELSE CompareLink

\* 1.2.3 released with 'minor': 1.3.0, compare link v1.2.3...v1.3.0
C5_Witness ==
    /\ pc = "Done" /\ args.category = "minor"
    /\ TripleOf(loc.previous_version) = Triple(1, 2, 3)
    /\ TripleOf(loc.current_version) = Triple(1, 3, 0)
    /\ ChangelogData.compare =
           PyStr(<<"v", "1", ".", "2", ".", "3", ".", ".", ".",
                   "v", "1", ".", "3", ".", "0">>)
    /\ forge.releases[1].tag_name = <<"v", "1", ".", "3", ".", "0">>


\* ================================== claims on get_latest_git_tag_version
\* C16: the version returned has dirty = True exactly when diff-index
\* reports a changed tracked file or status lists an untracked file ("??"),
\* with a tag and without one.
C16_DirtyIffChanged ==
    (out # Pending /\ out.exc = "none") =>
        /\ out.val.dirty \in {0, 1}
        /\ out.val.dirty = 1 <=>
               \/ diff_index_out(git) # <<>>
               \/ \E i \in 1..Len(status_out(git)) :
                      status_out(git)[i].xy = "??"
        /\ out.val.dirty = 1 <=> (git.tracked # <<>> \/ git.untracked # <<>>)

\* without a tag, with an untracked file as the only change: dirty
C16_Witness ==
    /\ out # Pending /\ out.exc = "none" /\ out.val.dirty = 1
    /\ git.tags = <<>> /\ git.tracked = <<>> /\ git.untracked # <<>>

C18_ZeroHistory ==
    (out # Pending /\ git.head = Unborn /\ inp.failed = 0) =>
        /\ out.exc = "none"
        /\ TripleOf(out.val) = Triple(0, 0, 0)
        /\ out.val.commit = Zeros40

\* a request to close a milestone was made
PatchLogged == \E i \in 1..Len(log) : log[i].op = "PATCH milestone"

\* C20: a milestone is closed only when the precheck matched the milestone
\* titled v{current}, only after the release was created, and it is the
\* milestone with the matched number that is closed, no other; when no
\* milestone was matched no closing request is made and the run goes on to
\* Done.
C20_MilestoneClosure ==
    /\ [](PatchLogged =>
            /\ loc.milestone # PyNone
            /\ loc.milestone.title = vname(loc.current_version)
            /\ Len(forge.releases) = 1
            /\ \E i, j \in 1..Len(log) :
                   /\ i < j
                   /\ log[i].op = "POST releases" /\ log[i].result = "ok"
                   /\ log[j].op = "PATCH milestone")
    /\ [][forge'.milestones # forge.milestones =>
            /\ pc = "RemoteReleaseCreated" /\ pc' = "MilestoneClosed"
            /\ loc.milestone # PyNone
            /\ Len(forge'.milestones) = Len(forge.milestones)
            /\ \A i \in 1..Len(forge.milestones) :
                   forge'.milestones[i] =
                       IF forge.milestones[i].number = loc.milestone.number
                       THEN [forge.milestones[i] EXCEPT !.state = "closed"]
                       ELSE forge.milestones[i]]_vars
    /\ [][(pc = "RemoteReleaseCreated" /\ loc.milestone = PyNone) =>
            pc' = "MilestoneClosed" /\ log' = log /\ forge' = forge]_vars
    /\ [][pc = "MilestoneClosed" => pc' = "Done" /\ err' = "none"]_vars
    /\ []((pc = "Done" /\ loc.milestone = PyNone) => ~PatchLogged)

\* a run has closed the matched milestone, the second of two on the forge,
\* and left the other one open
C20_Witness ==
    /\ pc = "Done" /\ PatchLogged
    /\ Len(forge.milestones) = 2
    /\ forge.milestones[1].state = "open"
    /\ forge.milestones[2].state = "closed"
    /\ forge.milestones[2].number = loc.milestone.number

\* the repository had a version tag before the run
PreviousTagFound ==
    (IF git.annotated = <<>> THEN git.tags
     ELSE SubSeq(git.tags, 1, Len(git.tags) - 1)) # <<>>

\* C24: the changelog entry has the compare link from v{previous} to
\* v{current} exactly when the repository had a previous version tag, the tag
\* v0.0.0 included, and no compare link when it had none.
C24_CompareLinkIffPreviousTag ==
    Len(steps) >= 7 =>
        ChangelogData.compare =
            IF PreviousTagFound THEN CompareLink ELSE PyNone

\* the changelog as rendered in this run, and as the hook returned it
Rendered ==
    create_changelog(loc.current_version, loc.previous_version, loc.repo,
                     loc.description, loc.milestone,
                     issues_since(forge, loc.since))
Hooked == IF args.hook THEN [hooked |-> Rendered] ELSE Rendered

\* C29: the text written below the heading of the changelog file and the
\* body of the release sent to the forge are both the rendered changelog as
\* the hook returned it (the rendered changelog itself without a hook), and
\* the tag name sent to the forge is the name of the annotated tag the run
\* created.
C29_SameTextSameTag ==
    /\ Len(steps) >= 8 =>
           /\ Len(git.changelog.content) >= 4
           /\ SubSeq(git.changelog.content, 1, 4)
                  = <<HeadingLine, Newline, Newline, EntryLines(Hooked)>>
    /\ Len(steps) >= 15 =>
           /\ Len(forge.releases) = 1 /\ Len(git.annotated) = 1
           /\ forge.releases[1].body = Hooked
           /\ forge.releases[1].tag_name = git.annotated[1].name
           /\ forge.releases[1].tag_name = vname(loc.current_version)

\* a run with a hook is done: the file and the release hold what the hook
\* returned, the release names the tag v1.2.4 made in the run
C29_Witness ==
    /\ pc = "Done" /\ args.hook
    /\ git.changelog.content[4] = EntryLines([hooked |-> Rendered])
    /\ forge.releases[1].body = [hooked |-> Rendered]
    /\ git.annotated[1].name = <<"v", "1", ".", "2", ".", "4">>
    /\ forge.releases[1].tag_name = <<"v", "1", ".", "2", ".", "4">>

\* the tags the repository had before the run
TagsBefore ==
    IF git.annotated = <<>> THEN git.tags
    ELSE SubSeq(git.tags, 1, Len(git.tags) - 1)

\* C30: when a run is done, get_latest_git_tag_version on the repository as
\* the run left it gives the released version, not dirty; the released
\* version is above the previous one and its tag is a new name.
C30_ReleasedIsLatest ==
    pc = "Done" =>
        LET latest == get_latest_git_tag_version(git, 0)
        IN  /\ latest.exc = "none"
            /\ TripleOf(latest.val) = TripleOf(loc.current_version)
            /\ latest.val.dirty = 0
            /\ Version_gt(loc.current_version, PyObj(loc.previous_version))
            /\ \A i \in 1..Len(TagsBefore) :
                   TagsBefore[i] # vname(loc.current_version)

\* C27: whatever the working directory of the process, the changelog commit
\* is made in the repository at path and holds the changelog file just
\* written there, and nothing else; likewise the version commit and the
\* version file; no stage or commit command runs in another repository or
\* fails to start in a directory that is not there.
C27_CommitsTheWrittenFile ==
    /\ pc \notin {"Idle"} =>
           /\ elsewhere.staged = {} /\ elsewhere.commits = <<>>
           /\ "Popen" \notin LoggedOps
    /\ Len(steps) >= 9 =>
           /\ Len(git.commits) >= 1
           /\ git.commits[1].files = {"changelog"}
    /\ Len(steps) >= 11 =>
           /\ Len(git.commits) >= 2
           /\ git.commits[2].files = {"version"}

\* the error an operation raises when it fails
ErrorOf(op) ==
    IF op = "GET issues" THEN "ReleaseError"
    ELSE IF op = "Popen" THEN "OSError"
    ELSE IF op \in ForgeOps THEN "HttpApiError"
    ELSE IF op \in {"write changelog", "write version"} THEN "EnvironmentError"
    ELSE "ExecuteCommandError"

\* C22: every operation that fails during release() is the last operation of
\* the run, and the run ends with the error that operation raised: no failure
\* is caught with the run going on, the tag-date lookup of the changelog
\* construction included.
C22_ErrorsPropagate ==
    \A i \in 1..Len(log) :
        log[i].result # "ok" =>
            /\ i = Len(log)
            /\ pc = "Failed"
            /\ err = ErrorOf(log[i].op)

\* ============================================ claims on the forge requests
\* the URL a request is sent to
RequestUrl ==
    ApiRepos \o (CASE inp.request = "get_milestones" -> <<"/milestones">>
                   [] inp.request = "close_milestone" ->
                         <<"/milestones/", inp.number>>
                   [] inp.request = "get_issues" -> <<"/issues">>
                   [] inp.request = "create_release" -> <<"/releases">>)

\* C23: for each of the four forge requests a response without a success
\* status (2xx) makes the function raise HttpApiError carrying the URL, the
\* status code and the payload, and a response with a success status makes
\* it return.
C23_StructuredApiError ==
    out # Pending =>
        IF inp.status_code \in 200..299
        THEN out.exc = "none"
        ELSE /\ out.exc = "HttpApiError"
             /\ out.val.url = RequestUrl
             /\ out.val.code = inp.status_code
             /\ out.val.error = inp.json

\* ============================================ claims on find_exe_in_path
\* the directories of the search path: the given path, or PATH when none is
\* given
SearchPath ==
    LET given == IF inp.path = PyNone
                 THEN (IF inp.environ = PyNone THEN PyStr(<<>>)
                       ELSE inp.environ)
                 ELSE inp.path
    IN  IF given.t = "seq" THEN given.e
        ELSE split(given.s, pathsep(inp.system))

\* join(dir, name) for the directories of the search path where it exists,
\* in search-path order
Located ==
    LET dirs == SearchPath
        all == [i \in 1..Len(dirs) |-> join(inp.system, dirs[i], inp.filename)]
    IN  filter(inp.files, all)

\* C21: find_exe_in_path returns, without raising, exactly the list of
\* join(dir, name) for the directories of the search path where that file
\* exists, in search-path order (the empty list when there is none).
C21_LocatedInSearchPath ==
    out # Pending => out = Return(Located)

\* ============================================== claims on write_changelog
\* position i of the text is the start of a line
LineStart(c, i) == i = 1 \/ c[i - 1].kind \in {"newline", "entry"}
\* the text has a line that is the heading: the heading text at the start of
\* a line, with the end of the line or of the file after it
HasHeading(c) ==
    \E i \in 1..Len(c) :
        /\ c[i] = HeadingLine /\ LineStart(c, i)
        /\ i = Len(c) \/ c[i + 1] = Newline
\* the entry e stands below a heading of the text, one blank line between
EntryBelowHeading(c, e) ==
    \E i \in 1..(Len(c) - 2 - Len(e)) :
        /\ c[i] = HeadingLine /\ LineStart(c, i)
        /\ c[i + 1] = Newline /\ c[i + 2] = Newline
        /\ SubSeq(c, i + 3, i + 2 + Len(e)) = e
\* a is what is left of b when some of its pieces are taken out
RECURSIVE Within(_, _)
Within(a, b) ==
    IF a = <<>> THEN TRUE
    ELSE IF b = <<>> THEN FALSE
    ELSE IF a[1] = b[1] THEN Within(Tail(a), Tail(b))
    ELSE Within(a, Tail(b))

\* C19: write_changelog on a missing file leaves the heading, a blank line
\* and the entry; on a file with the heading line it leaves the entry below
\* the heading, one blank line between, and every line the file had, in
\* the same order.
C19_EntryBelowHeading ==
    out # Pending =>
        /\ inp.file = Absent =>
               out.val.content = <<HeadingLine, Newline, Newline>>
                                     \o inp.changelog
        /\ (inp.file # Absent /\ HasHeading(inp.file.content)) =>
               /\ EntryBelowHeading(out.val.content, inp.changelog)
               /\ Within(inp.file.content, out.val.content)

\* the lines of the text that are the heading
HeadingLines(c) ==
    {i \in 1..Len(c) : /\ c[i] = HeadingLine /\ LineStart(c, i)
                       /\ i = Len(c) \/ c[i + 1] = Newline}
\* the positions of the text where the entry e stands
Occurrences(c, e) ==
    {i \in 1..(Len(c) - Len(e) + 1) : SubSeq(c, i, i + Len(e) - 1) = e}
\* the entry stands after a heading line, nothing but newlines between
HeadingThenEntry(c, e) ==
    \E h \in HeadingLines(c) : \E i \in Occurrences(c, e) :
        /\ h < i
        /\ \A j \in (h + 1)..(i - 1) : c[j] = Newline

\* C26: whatever the file was before (absent, with one heading line, without
\* a line starting with '# Changelog', with several such lines) and not
\* holding the entry yet, after write_changelog it holds the heading followed
\* by the entry, and the entry once.
C26_EntryOnceBelowHeading ==
    (out # Pending /\ out.exc = "none"
        /\ (inp.file # Absent =>
               Occurrences(inp.file.content, inp.changelog) = {})) =>
        /\ HeadingThenEntry(out.val.content, inp.changelog)
        /\ Cardinality(Occurrences(out.val.content, inp.changelog)) = 1

\* the text without its newline characters
WithoutNewlines(c) == SelectSeq(c, LAMBDA p : p # Newline)
\* the entries of a list, the last one first
RECURSIVE LastFirst(_)
LastFirst(entries) ==
    IF entries = <<>> THEN <<>>
    ELSE LastFirst(Tail(entries)) \o entries[1]

\* C25: after n >= 1 successive write_changelog calls on a path that did
\* not exist, the file has one heading line, the first line, and after it
\* the entries, the last written first, each one once.
C25_ReverseOrder ==
    inp # <<>> =>
        /\ HeadingLines(out.val.content) = {1}
        /\ WithoutNewlines(out.val.content)
               = <<HeadingLine>> \o LastFirst(inp)

\* ============================================== claims on execute_command
\* C15: with expected = PyNone execute_command returns (code, out, err) for
\* every exit code; with an integer expected it returns that triple exactly
\* when the exit code equals expected, and otherwise raises
\* ExecuteCommandError carrying the command, the exit code, out and err.
C15_ExecuteCommand ==
    out # Pending =>
        LET result == <<inp.returncode, inp.out, inp.err>>
        IN  /\ inp.expected = PyNone => out = Return(result)
            /\ inp.expected # PyNone =>
                   /\ out.exc = "none" <=> inp.returncode = inp.expected.i
                   /\ out.exc = "none" => out.val = result
                   /\ out.exc # "none" =>
                          /\ out.exc = "ExecuteCommandError"
                          /\ out.val.cmd = inp.cmd
                          /\ out.val.code = inp.returncode
                          /\ out.val.out = inp.out
                          /\ out.val.err = inp.err

\* a command expected to exit with 0 exited with another code and wrote to
\* stderr
C15_Witness ==
    /\ out # Pending /\ inp.expected = PyInt(0) /\ inp.returncode = MaxExit
    /\ inp.err # <<>> /\ out.exc = "ExecuteCommandError"

\* ====================================================== claims on versions
AllHex(s) == \A i \in 1..Len(s) : IsHexDigit(s[i])
NonNegative(v) == v.major >= 0 /\ v.minor >= 0 /\ v.patch >= 0

\* C11: a construction that succeeds gives major, minor and patch that are
\* non-negative integers, and bump keeps them non-negative.
C11_FieldsNonNegative ==
    /\ (out.exc = "none") => NonNegative(out.val)
    /\ (back.exc = "none") => NonNegative(back.self)

\* C12: GitVersion('M.m.p.C-dirty') with C hexadecimal gives (M, m, p),
\* commit = C and dirty = True; GitVersion('M.m.p.C') gives the same with
\* dirty = False.
C12_CombinedString ==
    (/\ inp.form = "string" /\ out # Pending
     /\ AllHex(inp.commit) /\ NonNegative(inp)) =>
        /\ out.exc = "none"
        /\ out.val = [major |-> inp.major, minor |-> inp.minor,
                      patch |-> inp.patch, commit |-> inp.commit,
                      dirty |-> IF inp.marker THEN 1 ELSE 0]

\* C13: GitVersion('M.m.p') and GitVersion(M, m, p) succeed with commit =
\* forty zeros and dirty = False.
C13_NoCommitGivesSentinel ==
    (/\ inp.cls = "GitVersion" /\ inp.form \in BareForms /\ out # Pending) =>
        /\ out.exc = "none"
        /\ out.val.commit = Zeros40
        /\ out.val.dirty = 0

\* C14: a commit text that is not made of hexadecimal digits (other than a
\* hexadecimal text followed by -dirty) makes the construction fail with
\* ValueError; every GitVersion that exists has a commit of hexadecimal
\* digits only.
C14_CommitIsHexadecimal ==
    (inp.cls = "GitVersion" /\ out # Pending) =>
        /\ (inp.form \notin BareForms /\ ~AllHex(inp.commit)) =>
               out.exc = "ValueError"
        /\ out.exc = "none" =>
               /\ "commit" \in DOMAIN out.val
               /\ AllHex(out.val.commit)

\* C28: for C hexadecimal and d boolean, GitVersion(M, m, p, C, d),
\* GitVersion(M, m, p, 'C-dirty') (d true), GitVersion of a mapping with the
\* five keys and GitVersion of another GitVersion holding these values all
\* give an object with (M, m, p), commit = C and dirty = d.
C28_FormsAgree ==
    (/\ inp.cls = "GitVersion" /\ out # Pending
     /\ AllHex(inp.commit) /\ NonNegative(inp)
     /\ \/ inp.form \in {"arguments_flag", "mapping", "version"}
        \/ inp.form = "arguments" /\ inp.marker) =>
        /\ out.exc = "none"
        /\ out.val = [major |-> inp.major, minor |-> inp.minor,
                      patch |-> inp.patch, commit |-> inp.commit,
                      dirty |-> IF inp.flag \/ inp.marker THEN 1 ELSE 0]

\* C6: bump('major') gives (M+1, 0, 0), bump('minor') gives (M, m+1, 0),
\* bump('patch') gives (M, m, p+1); the call returns normally, and every
\* other attribute (commit and dirty of a GitVersion) is left as it was.
C6_BumpResults ==
    cat \in NumericCategories =>
        /\ bexc = "none"
        /\ DOMAIN ver = DOMAIN pre
        /\ cat = "major" =>
             ver.major = pre.major + 1 /\ ver.minor = 0 /\ ver.patch = 0
        /\ cat = "minor" =>
             /\ ver.major = pre.major
             /\ ver.minor = pre.minor + 1
             /\ ver.patch = 0
        /\ cat = "patch" =>
             /\ ver.major = pre.major
             /\ ver.minor = pre.minor
             /\ ver.patch = pre.patch + 1
        /\ \A a \in DOMAIN pre \ VersionAttrs : ver[a] = pre[a]

\* a GitVersion with major, minor and patch all above 0 was bumped by 'minor'
C6_Witness ==
    /\ cat = "minor" /\ bexc = "none"
    /\ "commit" \in DOMAIN pre
    /\ pre.major > 0 /\ pre.minor > 0 /\ pre.patch > 0
    /\ ver.patch = 0

\* C7: bump(category) raises for every category other than 'major', 'minor'
\* and 'patch', and then leaves every attribute of the version unchanged.
C7_InvalidCategoryFails ==
    (cat # "" /\ cat \notin NumericCategories) =>
        bexc # "none" /\ ver = pre

\* the lexicographic order on (major, minor, patch), stated directly
LexLess(a, b) ==
    \/ a.major < b.major
    \/ a.major = b.major /\ a.minor < b.minor
    \/ a.major = b.major /\ a.minor = b.minor /\ a.patch < b.patch
SameTriple(a, b) ==
    a.major = b.major /\ a.minor = b.minor /\ a.patch = b.patch
Lexicographic(r, a, b) ==
    /\ r.lt = LexLess(a, b)
    /\ r.gt = LexLess(b, a)
    /\ r.eq = SameTriple(a, b)
    /\ r.ne = ~SameTriple(a, b)
    /\ r.le = (LexLess(a, b) \/ SameTriple(a, b))
    /\ r.ge = (LexLess(b, a) \/ SameTriple(a, b))
ExactlyOne(r) ==
    /\ r.lt \/ r.eq \/ r.gt
    /\ ~(r.lt /\ r.eq) /\ ~(r.lt /\ r.gt) /\ ~(r.eq /\ r.gt)

\* C8: the six comparisons are the lexicographic total order on
\* (major, minor, patch): exactly one of <, ==, > holds, the order is
\* transitive, and commit and dirty never take part.
C8_LexicographicOrder ==
    cmp # Idle =>
        /\ Lexicographic(cmp.ab, va, vb)
        /\ Lexicographic(cmp.bc, vb, vc)
        /\ Lexicographic(cmp.ac, va, vc)
        /\ Lexicographic(cmp.ba, vb, va)
        /\ ExactlyOne(cmp.ab) /\ ExactlyOne(cmp.bc) /\ ExactlyOne(cmp.ac)
        /\ (cmp.ab.lt /\ cmp.bc.lt) => cmp.ac.lt
        /\ (cmp.ab.le /\ cmp.bc.le) => cmp.ac.le
        /\ (cmp.ab.eq /\ cmp.bc.eq) => cmp.ac.eq
        /\ cmp.ab.lt = cmp.ba.gt
        /\ SameTriple(va, vb) => (cmp.ab.eq /\ ~cmp.ab.lt /\ ~cmp.ab.gt)

\* two GitVersions with equal triples, different commit and dirty, compared
\* equal, and both are below the third version
C8_Witness ==
    /\ cmp # Idle
    /\ SameTriple(va, vb) /\ va.commit # vb.commit /\ va.dirty # vb.dirty
    /\ cmp.ab.eq /\ cmp.bc.lt /\ cmp.ac.lt
    /\ va.major < vc.major /\ va.minor > vc.minor

\* C9: rendering the version built from "{major}.{minor}.{patch}" yields
\* that string again, and building a version from the rendering of a
\* version v yields a version equal to v.
C9_RoundTrip ==
    /\ (inp.form = "string" /\ out # Pending) => out.exc = "none"
    /\ (inp.form = "string" /\ txt # Pending) =>
         txt.val = Dotted(inp.major, inp.minor, inp.patch)
    /\ back # Pending =>
         /\ back.exc = "none"
         /\ back.val = out.val
         /\ Version_eq(back.val, PyObj(out.val))

\* a string with a number of two digits went through both directions
C9_Witness ==
    /\ inp.form = "string" /\ inp.major >= 10 /\ inp.minor = 0
    /\ inp.patch \in 1..9
    /\ back.exc = "none"

DocumentedForms == {"positional", "string", "version", "mapping", "keywords"}

\* C10: each documented construction form (three positional integers, the
\* dotted string, another Version, a mapping, keyword arguments) succeeds
\* and produces major = M, minor = m, patch = p.
C10_EveryFormConstructs ==
    (inp.form \in DocumentedForms /\ out # Pending) =>
        /\ out.exc = "none"
        /\ out.val = [major |-> inp.major, minor |-> inp.minor,
                      patch |-> inp.patch]

====
